---- MODULE Spec2Model ----
(***************************************************************************)
(* Model of RemBg's background-removal service                             *)
(* (src/src/services/backgroundRemovalService.js) and of the promise chain *)
(* removeBackground -> realBackgroundRemoval -> clientSideBackgroundRemoval*)
(* -> improvedAlgorithmBackgroundRemoval.                                  *)
(*                                                                         *)
(* Pixel arrays are TLA+ sequences; the source's 0-based index k is the    *)
(* sequence index k + 1 (operator At).  An RGBA buffer is the flat         *)
(* sequence of 4 * width * height bytes of ImageData.data.                 *)
(***************************************************************************)
EXTENDS Integers, Sequences, FiniteSets, TLC

\* ------------------------------------------------------------------ bounds
\* Number of removeBackground invocations that may be in flight.
MaxInvocations == 2
\* Side of the small square images (the spec's 4x4 example).
SmallSide == 4
\* Margin of background colour around the centred block of the test images.
BlockMargin == 5
\* Width and height of the buffer on which every rectangular mask is tried.
MaskWidth == 8
MaskHeight == 7
\* Largest of the two strides of the patterned images.
MaxStride == 5
\* Number of files the user may hand to the uploader.
MaxSelections == 3
\* Side of the square of pixels that lie outside the border band of the wide
\* images.
CoreSide == 4
\* Width and height of the buffer on which the distance map is tried: wide
\* enough for a pixel more than DistanceIterations steps from every seed.
StripWidth == 9
StripHeight == 4
\* Number of colours the user may pick, and of crops the user may apply.
MaxPicks == 2
MaxCrops == 1
\* Side of the square image whose pixels carry every alpha value.
AlphaSide == 16
\* Larger of the two sides a displayed image may have, distance between two
\* pointer positions, and number of pointer moves of one cropping session.
DisplaySide == 30
PointerGrid == 7
MaxMoves == 2

\* -------------------------------------------------------- program constants
unknownRadius == 3
sampleRadius == 10
bucketSize == 20
threshold == 50
MaxBorderSize == 30
BorderDivisor == 15
BorderBand == 30
MinBorderStep == 5
BorderStepDivisor == 20
featherRadius == 2
DistanceIterations == 5
\* 10 * 1024 * 1024
maxSize == 10485760
\* The minimum size of the crop box, in displayed pixels.
MinCropSize == 20

\* ----------------------------------------------------------------- helpers
At(arr, k) == arr[k + 1]

Min2(a, b) == IF a < b THEN a ELSE b
Max2(a, b) == IF a > b THEN a ELSE b

\* The function f over 1..n as an explicit tuple (TLC otherwise keeps
\* [k \in 1..n |-> e] unevaluated and stacks every EXCEPT on top of it).
AsTuple(f) == SubSeq(f, 1, Len(f))

RECURSIVE SumSeq(_)
SumSeq(s) == IF s = <<>> THEN 0 ELSE Head(s) + SumSeq(Tail(s))

\* c * a as the pair <<hi, lo>> with value hi * 1024 + lo, for products that
\* exceed 32 bits (c <= 65025, a <= 3 * 255^2).
MulWide(c, a) ==
  LET l == c * (a % 1024)
  IN  <<c * (a \div 1024) + (l \div 1024), l % 1024>>

LeqWide(p, q) == p[1] < q[1] \/ (p[1] = q[1] /\ p[2] <= q[2])

\* Red, green, blue, alpha of pixel idx (0-based) of a flat RGBA buffer.
Red(data, idx) == At(data, idx * 4)
Green(data, idx) == At(data, idx * 4 + 1)
Blue(data, idx) == At(data, idx * 4 + 2)
Alpha(data, idx) == At(data, idx * 4 + 3)

\* ---------------------------------------------------------- createTrimap
\* trimap[i] = segmentationData[i] === 0 ? 0 : 255
TrimapBaseKeepsLabel(segmentationData) ==
  [k \in 1..Len(segmentationData) |-> segmentationData[k]]

TrimapBase(segmentationData) ==
  [k \in 1..Len(segmentationData) |-> IF segmentationData[k] = 0 THEN 0 ELSE 255]

isNearBoundaryFourNeighbours(trimap, x, y, width) ==
  \E d \in ((0 - unknownRadius)..unknownRadius) \ {0} :
    \/ At(trimap, (y + d) * width + x) # At(trimap, y * width + x)
    \/ At(trimap, y * width + (x + d)) # At(trimap, y * width + x)

isNearBoundary(trimap, x, y, width) ==
  \E dy \in (0 - unknownRadius)..unknownRadius :
    \E dx \in (0 - unknownRadius)..unknownRadius :
      /\ ~(dx = 0 /\ dy = 0)
      /\ At(trimap, (y + dy) * width + (x + dx)) # At(trimap, y * width + x)

createTrimap(segmentationData, width, height) ==
  LET trimap == TrimapBase(segmentationData)
  IN  [k \in 1..Len(trimap) |->
        LET idx == k - 1
            x == idx % width
            y == idx \div width
        IN  IF /\ y >= unknownRadius /\ y < height - unknownRadius
               /\ x >= unknownRadius /\ x < width - unknownRadius
               /\ isNearBoundary(trimap, x, y, width)
            THEN 128
            ELSE trimap[k]]

\* ------------------------------------------------------- sampleFgBgColors
\* Pixel indices of the (2 * sampleRadius + 1)^2 window around (x, y) that lie
\* inside the buffer and carry the trimap label.
Samples(trimap, label, x, y, width, height) ==
  { n \in { ny * width + nx :
              ny \in Max2(0, y - sampleRadius)..Min2(height - 1, y + sampleRadius),
              nx \in Max2(0, x - sampleRadius)..Min2(width - 1, x + sampleRadius) } :
      At(trimap, n) = label }

\* Sum of channel off over the samples, row by row.
SampleSum(imageData, trimap, label, off, x, y, width, height) ==
  LET y0 == Max2(0, y - sampleRadius)
      y1 == Min2(height - 1, y + sampleRadius)
      x0 == Max2(0, x - sampleRadius)
      x1 == Min2(width - 1, x + sampleRadius)
      rowSum(ny) ==
        SumSeq([j \in 1..(x1 - x0 + 1) |->
                 IF At(trimap, ny * width + x0 + j - 1) = label
                 THEN At(imageData, (ny * width + x0 + j - 1) * 4 + off)
                 ELSE 0])
  IN  SumSeq([j \in 1..(y1 - y0 + 1) |-> rowSum(y0 + j - 1)])

\* Mean colour floor(sum / count) of the samples, or the default colour when
\* there is none.
MeanColor(imageData, trimap, label, x, y, width, height, default) ==
  LET n == Cardinality(Samples(trimap, label, x, y, width, height))
  IN  IF n = 0 THEN default
      ELSE [r |-> SampleSum(imageData, trimap, label, 0, x, y, width, height) \div n,
            g |-> SampleSum(imageData, trimap, label, 1, x, y, width, height) \div n,
            b |-> SampleSum(imageData, trimap, label, 2, x, y, width, height) \div n]

sampleFgBgColorsSwappedDefaults(imageData, trimap, x, y, width, height) ==
  [fgColor |-> MeanColor(imageData, trimap, 255, x, y, width, height,
                         [r |-> 255, g |-> 255, b |-> 255]),
   bgColor |-> MeanColor(imageData, trimap, 0, x, y, width, height,
                         [r |-> 0, g |-> 0, b |-> 0])]

sampleFgBgColors(imageData, trimap, x, y, width, height) ==
  [fgColor |-> MeanColor(imageData, trimap, 255, x, y, width, height,
                         [r |-> 0, g |-> 0, b |-> 0]),
   bgColor |-> MeanColor(imageData, trimap, 0, x, y, width, height,
                         [r |-> 255, g |-> 255, b |-> 255])]

\* Square of the Euclidean RGB distance of colorDistance (lines 421-427).
colorDistanceSq(r1, g1, b1, r2, g2, b2) ==
  (r1 - r2) * (r1 - r2) + (g1 - g2) * (g1 - g2) + (b1 - b2) * (b1 - b2)

\* The exact value of 255 * (1 - dFg / (dFg + dBg)) with dFg = sqrt(a) and
\* dBg = sqrt(b), rounded down: the largest k in 0..255 with
\* k * sqrt(a) <= (255 - k) * sqrt(b).
AlphaLeq(k, a, b) == LeqWide(MulWide(k * k, a), MulWide((255 - k) * (255 - k), b))

ExactAlpha(a, b) ==
  CHOOSE k \in 0..255 : AlphaLeq(k, a, b) /\ (k = 255 \/ ~AlphaLeq(k + 1, a, b))

\* The squared distances (a, b), both at most 1000, on which the IEEE-754
\* evaluation of lines 273-285 falls just short of an exact integer value:
\* the double is k - 2^-45 or so where the exact value is k.  Everywhere else
\* in that range the double and the exact value have the same integer part.
AlphaShort ==
  { <<16, 1>>, <<25, 144>>, <<27, 12>>, <<32, 2>>, <<36, 121>>, <<40, 10>>, <<48, 3>>,
    <<50, 288>>, <<52, 13>>, <<63, 28>>, <<64, 4>>, <<68, 17>>, <<68, 153>>,
    <<75, 432>>, <<80, 5>>, <<88, 22>>, <<99, 44>>, <<100, 576>>, <<108, 48>>,
    <<108, 363>>, <<112, 7>>, <<116, 29>>, <<117, 52>>, <<120, 30>>, <<121, 36>>,
    <<124, 31>>, <<125, 720>>, <<128, 8>>, <<144, 9>>, <<144, 25>>, <<144, 484>>,
    <<153, 68>>, <<160, 40>>, <<169, 4>>, <<176, 11>>, <<180, 605>>, <<184, 46>>,
    <<188, 47>>, <<189, 84>>, <<192, 12>>, <<196, 1>>, <<204, 51>>, <<204, 459>>,
    <<208, 52>>, <<216, 54>>, <<236, 59>>, <<240, 15>>, <<242, 72>>, <<245, 500>>,
    <<252, 63>>, <<252, 112>>, <<252, 847>>, <<256, 16>>, <<268, 67>>, <<272, 68>>,
    <<272, 612>>, <<279, 124>>, <<280, 70>>, <<288, 18>>, <<292, 73>>, <<300, 75>>,
    <<304, 19>>, <<308, 77>>, <<312, 702>>, <<315, 140>>, <<320, 20>>, <<320, 405>>,
    <<328, 738>>, <<336, 21>>, <<338, 32>>, <<343, 700>>, <<352, 88>>, <<363, 108>>,
    <<364, 91>>, <<378, 168>>, <<392, 2>>, <<392, 18>>, <<392, 98>>, <<396, 99>>,
    <<396, 176>>, <<400, 25>>, <<412, 103>>, <<432, 27>>, <<432, 192>>, <<436, 109>>,
    <<440, 110>>, <<448, 28>>, <<448, 567>>, <<459, 204>>, <<464, 116>>, <<468, 117>>,
    <<468, 208>>, <<480, 120>>, <<484, 144>>, <<492, 123>>, <<496, 124>>, <<504, 126>>,
    <<507, 12>>, <<507, 48>>, <<512, 32>>, <<520, 130>>, <<528, 33>>, <<531, 236>>,
    <<536, 134>>, <<540, 135>>, <<544, 34>>, <<552, 138>>, <<560, 35>>, <<576, 36>>,
    <<576, 100>>, <<580, 145>>, <<592, 37>>, <<596, 149>>, <<605, 180>>, <<608, 38>>,
    <<612, 272>>, <<624, 39>>, <<640, 160>>, <<644, 161>>, <<648, 162>>, <<656, 41>>,
    <<660, 165>>, <<664, 166>>, <<672, 42>>, <<675, 12>>, <<676, 16>>, <<688, 43>>,
    <<692, 173>>, <<696, 174>>, <<704, 44>>, <<716, 179>>, <<720, 125>>, <<728, 182>>,
    <<736, 184>>, <<740, 185>>, <<748, 187>>, <<752, 188>>, <<756, 336>>, <<765, 340>>,
    <<768, 48>>, <<784, 4>>, <<784, 49>>, <<784, 529>>, <<800, 50>>, <<804, 201>>,
    <<808, 202>>, <<816, 204>>, <<820, 205>>, <<824, 206>>, <<832, 208>>, <<845, 80>>,
    <<847, 252>>, <<852, 213>>, <<860, 215>>, <<864, 216>>, <<868, 217>>, <<876, 219>>,
    <<880, 55>>, <<884, 221>>, <<904, 226>>, <<916, 229>>, <<918, 408>>, <<920, 230>>,
    <<924, 231>>, <<928, 58>>, <<940, 235>>, <<944, 236>>, <<948, 237>>, <<960, 60>>,
    <<964, 241>>, <<968, 288>>, <<976, 61>>, <<980, 45>>, <<980, 245>>, <<992, 62>>,
    <<1000, 250>> }

\* computeAlphaFromColors followed by the Uint8Array store of line 205, which
\* truncates.  totalDist < 1 holds exactly when a = 0 and b = 0 (a and b are
\* integers).
computeAlphaFromColors(r, g, b, fgColor, bgColor) ==
  LET a  == colorDistanceSq(r, g, b, fgColor.r, fgColor.g, fgColor.b)
      bb == colorDistanceSq(r, g, b, bgColor.r, bgColor.g, bgColor.b)
  IN  IF a = 0 /\ bb = 0 THEN 255
      ELSE IF <<a, bb>> \in AlphaShort THEN ExactAlpha(a, bb) - 1
      ELSE ExactAlpha(a, bb)

\* --------------------------------------------------------------- smoothAlpha
smoothAlphaEverywhere(alpha, trimap, width, height) ==
  [k \in 1..Len(alpha) |->
    LET idx == k - 1
        x == idx % width
        y == idx \div width
    IN  IF y >= 1 /\ y < height - 1 /\ x >= 1 /\ x < width - 1
        THEN SumSeq([j \in 1..9 |->
               At(alpha, (y + ((j - 1) \div 3) - 1) * width + (x + ((j - 1) % 3) - 1))])
             \div 9
        ELSE alpha[k]]

smoothAlpha(alpha, trimap, width, height) ==
  [k \in 1..Len(alpha) |->
    LET idx == k - 1
        x == idx % width
        y == idx \div width
    IN  IF /\ y >= 1 /\ y < height - 1 /\ x >= 1 /\ x < width - 1
           /\ trimap[k] = 128
        THEN SumSeq([j \in 1..9 |->
               At(alpha, (y + ((j - 1) \div 3) - 1) * width + (x + ((j - 1) % 3) - 1))])
             \div 9
        ELSE alpha[k]]

\* --------------------------------------------------------- applyAlphaMatting
MatteBeforeSmoothing(imageData, trimap, width, height) ==
  [k \in 1..Len(trimap) |->
    LET idx == k - 1
        x == idx % width
        y == idx \div width
    IN  IF trimap[k] = 0 THEN 0
        ELSE IF trimap[k] = 255 THEN 255
        ELSE LET c == sampleFgBgColors(imageData, trimap, x, y, width, height)
             IN  Max2(0, Min2(255,
                   computeAlphaFromColors(Red(imageData, idx), Green(imageData, idx),
                                          Blue(imageData, idx), c.fgColor, c.bgColor)))]

applyAlphaMatting(imageData, trimap, width, height) ==
  smoothAlpha(MatteBeforeSmoothing(imageData, trimap, width, height),
              trimap, width, height)

\* ------------------------------------------------------------ applyAlphaMask
\* Math.floor(a * (m / 255)) in IEEE-754 doubles.  It equals floor(a * m / 255)
\* except for the pairs below, where a * m is a multiple of 255 and the rounded
\* quotient m / 255 makes the product fall just short of the integer.
FloatShort ==
  { <<51, 155>>, <<75, 187>>, <<85, 147>>, <<85, 171>>, <<102, 155>>, <<150, 187>>,
    <<153, 155>>, <<153, 195>>, <<165, 187>>, <<170, 147>>, <<170, 171>>, <<204, 155>> }

ScaleAlpha(a, m) ==
  IF <<a, m>> \in FloatShort THEN ((a * m) \div 255) - 1 ELSE (a * m) \div 255

applyAlphaMaskWrongChannel(imageData, alphaMask) ==
  [i \in 1..Len(imageData) |->
    IF (i - 1) % 4 = 2
    THEN ScaleAlpha(imageData[i], alphaMask[((i - 1) \div 4) + 1])
    ELSE imageData[i]]

applyAlphaMask(imageData, alphaMask) ==
  [i \in 1..Len(imageData) |->
    IF (i - 1) % 4 = 3
    THEN ScaleAlpha(imageData[i], alphaMask[((i - 1) \div 4) + 1])
    ELSE imageData[i]]

\* ---------------------------------------------------------- createDistanceMap
\* An entry of the distance map is Infinity or a sum of p steps of length 1
\* and q steps of length sqrt(2).  Two different sums of that kind are never
\* close enough for the rounding of the Float32Array to change a comparison,
\* and the sums below featherRadius are 0, 1 and sqrt(2) only.
Infinity == [inf |-> TRUE, p |-> 0, q |-> 0]

Steps(p, q) == [inf |-> FALSE, p |-> p, q |-> q]

\* d1 < d2.
DistLess(d1, d2) ==
  IF d1.inf THEN FALSE
  ELSE IF d2.inf THEN TRUE
  ELSE LET dp == d2.p - d1.p
           dq == d2.q - d1.q
       IN  \/ dp >= 0 /\ dq >= 0 /\ (dp > 0 \/ dq > 0)
           \/ dp > 0 /\ dq < 0 /\ dp * dp > 2 * dq * dq
           \/ dp < 0 /\ dq > 0 /\ 2 * dq * dq > dp * dp

\* d + Math.sqrt(dx * dx + dy * dy) for dx, dy in -1..1.
DistPlus(d, dx, dy) ==
  IF d.inf \/ (dx = 0 /\ dy = 0) THEN d
  ELSE IF dx # 0 /\ dy # 0 THEN [d EXCEPT !.q = @ + 1]
  ELSE [d EXCEPT !.p = @ + 1]

\* A pixel of mask value 255 with a pixel of mask value 0 among its eight
\* neighbours inside the buffer (lines 513-533).
isEdge(mask, x, y, width, height) ==
  /\ At(mask, y * width + x) = 255
  /\ \E dy \in -1..1 : \E dx \in -1..1 :
       /\ ~(dx = 0 /\ dy = 0)
       /\ y + dy >= 0 /\ y + dy < height /\ x + dx >= 0 /\ x + dx < width
       /\ At(mask, (y + dy) * width + (x + dx)) = 0

\* One pixel of a propagation sweep (lines 541-552); the map is updated in
\* place, so a pixel sees the distances already lowered at lower indices.
PropagatePixel(distances, idx, mask, width, height) ==
  LET x == idx % width
      y == idx \div width
      cands == { DistPlus(At(distances, (y + dy) * width + (x + dx)), dx, dy) :
                   dy \in -1..1, dx \in -1..1 }
      minDist == CHOOSE m \in cands : \A o \in cands : ~DistLess(o, m)
  IN  IF /\ y >= 1 /\ y < height - 1 /\ x >= 1 /\ x < width - 1
         /\ At(mask, idx) = 255 /\ At(distances, idx) # Steps(0, 0)
      THEN [distances EXCEPT ![idx + 1] = minDist]
      ELSE distances

\* One sweep over the pixels lo..hi in index order.
RECURSIVE Sweep(_, _, _, _, _, _)
Sweep(lo, hi, distances, mask, width, height) ==
  IF lo > hi THEN distances
  ELSE IF lo = hi THEN PropagatePixel(distances, lo, mask, width, height)
  ELSE LET mid == (lo + hi) \div 2
           low == Sweep(lo, mid, distances, mask, width, height)
       \* (the test makes TLC compute low before it recurses)
       IN  IF low = <<>> THEN low
           ELSE Sweep(mid + 1, hi, low, mask, width, height)

\* n sweeps in which every pixel is recomputed from the map as it was when
\* the sweep began.
RECURSIVE SweepsFromSnapshot(_, _, _, _, _)
SweepsFromSnapshot(n, distances, mask, width, height) ==
  IF n = 0 THEN distances
  ELSE LET swept == AsTuple([j \in 1..Len(distances) |->
                      PropagatePixel(distances, j - 1, mask, width, height)[j]])
       IN  IF swept = <<>> THEN swept
           ELSE SweepsFromSnapshot(n - 1, swept, mask, width, height)

\* The iterations of the propagation loop (lines 538-555).
RECURSIVE Sweeps(_, _, _, _, _)
Sweeps(n, distances, mask, width, height) ==
  IF n = 0 THEN distances
  ELSE LET swept == Sweep(0, width * height - 1, distances, mask, width, height)
       IN  IF swept = <<>> THEN swept
           ELSE Sweeps(n - 1, swept, mask, width, height)

createDistanceMap(mask, width, height) ==
  Sweeps(DistanceIterations,
         AsTuple([k \in 1..Len(mask) |->
           IF isEdge(mask, (k - 1) % width, (k - 1) \div width, width, height)
           THEN Steps(0, 0) ELSE Infinity]),
         mask, width, height)

\* --------------------------------------------------- applyMaskWithSmoothAlpha
\* The alphas on which the double product a * 0.7 falls just short of the
\* integer 7 * a / 10.
FeatherShort == {90, 170, 180}

\* k <= a * (0.7 + 0.15 * (p + q * sqrt(2))), the factor of line 499 for the
\* distance d = p + q * sqrt(2) below featherRadius.
FeatherLeq(k, a, d) ==
  LET t == 20 * k - a * (14 + 3 * d.p)
  IN  t <= 0 \/ t * t <= 18 * a * a * d.q * d.q

FeatherScaleFalling(a, d) ==
  CHOOSE k \in 0..255 :
    /\ FeatherLeq(k, a, Steps(1 - d.p, 1 - d.q))
    /\ k = 255 \/ ~FeatherLeq(k + 1, a, Steps(1 - d.p, 1 - d.q))

\* Math.floor(imageData[i + 3] * alpha) of line 500.
FeatherScale(a, d) ==
  LET k == CHOOSE j \in 0..255 :
             FeatherLeq(j, a, d) /\ (j = 255 \/ ~FeatherLeq(j + 1, a, d))
  IN  IF d = Steps(0, 0) /\ a \in FeatherShort THEN k - 1 ELSE k

applyMaskWithSmoothAlpha(imageData, mask, width, height) ==
  LET distanceMap == createDistanceMap(mask, width, height)
  IN  AsTuple([j \in 1..Len(imageData) |->
        LET idx == (j - 1) \div 4
        IN  IF (j - 1) % 4 # 3 THEN imageData[j]
            ELSE IF At(mask, idx) = 0 THEN 0
            ELSE IF DistLess(At(distanceMap, idx), Steps(featherRadius, 0))
            THEN FeatherScale(imageData[j], At(distanceMap, idx))
            ELSE imageData[j]])

\* ------------------------------------------------------------ getBorderColors
borderSizeOf(width, height) ==
  Min2(MaxBorderSize, Min2(width \div BorderDivisor, height \div BorderDivisor))

\* The pixel indices whose colours getBorderColors pushes, in push order: top
\* rows, bottom rows, left columns, right columns (a corner pixel is pushed by
\* a row loop and again by a column loop).
getBorderColors(width, height) ==
  LET bs == borderSizeOf(width, height)
      top    == [j \in 1..(bs * width) |-> j - 1]
      bottom == [j \in 1..(bs * width) |-> (height - bs) * width + (j - 1)]
      left   == [j \in 1..(height * bs) |-> ((j - 1) \div bs) * width + ((j - 1) % bs)]
      right  == [j \in 1..(height * bs) |->
                   ((j - 1) \div bs) * width + (width - bs) + ((j - 1) % bs)]
  IN  top \o bottom \o left \o right

\* ----------------------------------------------------------- getDominantColor
BucketKey(data, idx) ==
  <<Red(data, idx) \div bucketSize, Green(data, idx) \div bucketSize,
    Blue(data, idx) \div bucketSize>>

\* With no colour pushed, dominantKey stays '' and ''.split(',') is [''], so
\* r = parseInt('') * 20 + 10 = NaN and g, b are undefined: nan marks that
\* colour, every arithmetic use of which yields NaN.
NaNColor == [nan |-> TRUE, r |-> 0, g |-> 0, b |-> 0]

getDominantColor(data, colors) ==
  IF colors = <<>> THEN NaNColor
  ELSE LET count(j) ==
             Cardinality({ i \in 1..Len(colors) :
                           BucketKey(data, colors[i]) = BucketKey(data, colors[j]) })
           \* Object.keys lists the buckets in insertion order and the scan
           \* keeps the first one holding the largest count.
           first == CHOOSE j \in 1..Len(colors) :
                      /\ \A i \in 1..Len(colors) : count(i) <= count(j)
                      /\ \A i \in 1..(j - 1) : count(i) < count(j)
           key == BucketKey(data, colors[first])
       IN  [nan |-> FALSE,
            r |-> key[1] * bucketSize + (bucketSize \div 2),
            g |-> key[2] * bucketSize + (bucketSize \div 2),
            b |-> key[3] * bucketSize + (bucketSize \div 2)]

\* -------------------------------------------------------- createImprovedMask
\* colorDistance of lines 725-732 compared with threshold * factor, factor
\* given in tenths: sqrt((0.3 dr)^2 + (0.59 dg)^2 + (0.11 db)^2) < 50 * f / 10.
\* A NaN operand makes the comparison false.
WeightedBelow(r1, g1, b1, c, factor10) ==
  /\ ~c.nan
  /\ 900 * (r1 - c.r) * (r1 - c.r) + 3481 * (g1 - c.g) * (g1 - c.g)
       + 121 * (b1 - c.b) * (b1 - c.b)
     < 100 * (threshold * factor10) * (threshold * factor10)

PixelBelow(data, idx, c, factor10) ==
  WeightedBelow(Red(data, idx), Green(data, idx), Blue(data, idx), c, factor10)

isOnBorder(x, y, width, height) ==
  x < BorderBand \/ x > width - BorderBand \/ y < BorderBand \/ y > height - BorderBand

\* First pass: mask[idx] = 1 marks a pixel whose colour is near the background
\* colour.
FirstPass(data, width, height, bgColor) ==
  AsTuple([k \in 1..(width * height) |->
    LET idx == k - 1
    IN  IF PixelBelow(data, idx, bgColor,
                      IF isOnBorder(idx % width, idx \div width, width, height)
                      THEN 18 ELSE 10)
        THEN 1 ELSE 0])

\* As FloodStep, without the test of visited[idx].
FloodStepIgnoresVisited(s, data, width, height, bgColor, startIdx) ==
  LET top  == s.stack[Len(s.stack)]
      rest == SubSeq(s.stack, 1, Len(s.stack) - 1)
      px   == top[1]
      py   == top[2]
      idx  == py * width + px
      startColor == [nan |-> FALSE, r |-> Red(data, startIdx),
                     g |-> Green(data, startIdx), b |-> Blue(data, startIdx)]
  IN  IF px < 0 \/ px >= width \/ py < 0 \/ py >= height
      THEN [s EXCEPT !.stack = rest]
      ELSE IF PixelBelow(data, idx, startColor, 15) \/ PixelBelow(data, idx, bgColor, 13)
      THEN [mask    |-> [s.mask EXCEPT ![idx + 1] = 1],
            visited |-> [s.visited EXCEPT ![idx + 1] = 1],
            stack   |-> rest \o << <<px + 1, py>>, <<px - 1, py>>,
                                   <<px, py + 1>>, <<px, py - 1>> >>]
      ELSE [s EXCEPT !.stack = rest]

\* One iteration of floodFill's while loop on s = [mask, visited, stack].
FloodStep(s, data, width, height, bgColor, startIdx) ==
  LET top  == s.stack[Len(s.stack)]
      rest == SubSeq(s.stack, 1, Len(s.stack) - 1)
      px   == top[1]
      py   == top[2]
      idx  == py * width + px
      startColor == [nan |-> FALSE, r |-> Red(data, startIdx),
                     g |-> Green(data, startIdx), b |-> Blue(data, startIdx)]
  IN  IF px < 0 \/ px >= width \/ py < 0 \/ py >= height
      THEN [s EXCEPT !.stack = rest]
      ELSE IF At(s.visited, idx) = 1
      THEN [s EXCEPT !.stack = rest]
      ELSE IF PixelBelow(data, idx, startColor, 15) \/ PixelBelow(data, idx, bgColor, 13)
      THEN [mask    |-> [s.mask EXCEPT ![idx + 1] = 1],
            visited |-> [s.visited EXCEPT ![idx + 1] = 1],
            stack   |-> rest \o << <<px + 1, py>>, <<px - 1, py>>,
                                   <<px, py + 1>>, <<px, py - 1>> >>]
      ELSE [s EXCEPT !.stack = rest]

\* The coordinates at which one iteration indexes visited, data and mask: none
\* when the popped entry fails the range test of line 766, whose || stops
\* before visited[idx]; the popped entry otherwise (lines 766-778).
FloodAccess(s, width, height) ==
  LET top == s.stack[Len(s.stack)]
  IN  IF top[1] < 0 \/ top[1] >= width \/ top[2] < 0 \/ top[2] >= height
      THEN {}
      ELSE {top}

\* At most n iterations of the while loop, stopping when the stack is empty.
RECURSIVE FloodLoop(_, _, _, _, _, _, _)
FloodLoop(n, s, data, width, height, bgColor, startIdx) ==
  IF s.stack = <<>> THEN s
  ELSE IF n <= 1 THEN FloodStep(s, data, width, height, bgColor, startIdx)
  ELSE LET half == FloodLoop(n \div 2, s, data, width, height, bgColor, startIdx)
       IN  IF half.stack = <<>> THEN half
           ELSE FloodLoop(n - (n \div 2), half, data, width, height, bgColor, startIdx)

\* floodFill(startX, startY): every accepted pixel pushes 4 entries and is
\* accepted once, so the loop runs at most 4 * width * height + 1 times.
floodFill(s, startX, startY, data, width, height, bgColor) ==
  LET done == FloodLoop(4 * width * height + 1,
                        [s EXCEPT !.stack = << <<startX, startY>> >>],
                        data, width, height, bgColor, startY * width + startX)
  IN  [mask |-> done.mask, visited |-> done.visited, stack |-> <<>>]

borderStepOf(width, height) ==
  Max2(MinBorderStep, Min2(width, height) \div BorderStepDivisor)

\* The seed candidates in the order the two loops of lines 790-801 test them.
SeedCandidates(width, height) ==
  LET step == borderStepOf(width, height)
      nx == (width + step - 1) \div step
      ny == (height + step - 1) \div step
      xs == [j \in 1..(2 * nx) |->
               <<((j - 1) \div 2) * step, IF j % 2 = 1 THEN 0 ELSE height - 1>>]
      ys == [j \in 1..(2 * ny) |->
               <<IF j % 2 = 1 THEN 0 ELSE width - 1, ((j - 1) \div 2) * step>>]
  IN  xs \o ys

\* As FloodFromSeeds, without the test of the seed's label.
RECURSIVE FloodFromSeedsUntested(_, _, _, _, _, _)
FloodFromSeedsUntested(seeds, s, data, width, height, bgColor) ==
  IF seeds = <<>> THEN s
  ELSE LET sd == Head(seeds)
           next == floodFill(s, sd[1], sd[2], data, width, height, bgColor)
       IN  IF next.stack = <<>>
           THEN FloodFromSeedsUntested(Tail(seeds), next, data, width, height, bgColor)
           ELSE next

RECURSIVE FloodFromSeeds(_, _, _, _, _, _)
FloodFromSeeds(seeds, s, data, width, height, bgColor) ==
  IF seeds = <<>> THEN s
  ELSE LET sd == Head(seeds)
           next == IF At(s.mask, sd[2] * width + sd[1]) = 1
                   THEN floodFill(s, sd[1], sd[2], data, width, height, bgColor)
                   ELSE s
       \* (the test makes TLC compute next before it recurses)
       IN  IF next.stack = <<>>
           THEN FloodFromSeeds(Tail(seeds), next, data, width, height, bgColor)
           ELSE next

\* Second pass, one pixel, with two background neighbours sufficing.
SecondPassPixelTwoNeighbours(mask, idx, data, width, height, bgColor) ==
  LET px == idx % width
      py == idx \div width
      bgNeighbors ==
        Cardinality({ n \in { (py - 1) * width + px, (py + 1) * width + px,
                              py * width + (px - 1), py * width + (px + 1) } :
                      At(mask, n) = 1 })
  IN  IF At(mask, idx) = 1 THEN mask
      ELSE IF ~(px > 0 /\ px < width - 1 /\ py > 0 /\ py < height - 1) THEN mask
      ELSE IF bgNeighbors >= 2 /\ PixelBelow(data, idx, bgColor, 15)
      THEN [mask EXCEPT ![idx + 1] = 1]
      ELSE IF PixelBelow(data, idx, bgColor, 8)
      THEN [mask EXCEPT ![idx + 1] = 1]
      ELSE mask

\* Second pass, one pixel: the mask is updated in place, so a pixel sees the
\* labels already changed at lower indices.
SecondPassPixel(mask, idx, data, width, height, bgColor) ==
  LET px == idx % width
      py == idx \div width
      bgNeighbors ==
        Cardinality({ n \in { (py - 1) * width + px, (py + 1) * width + px,
                              py * width + (px - 1), py * width + (px + 1) } :
                      At(mask, n) = 1 })
  IN  IF At(mask, idx) = 1 THEN mask
      ELSE IF ~(px > 0 /\ px < width - 1 /\ py > 0 /\ py < height - 1) THEN mask
      ELSE IF bgNeighbors >= 3 /\ PixelBelow(data, idx, bgColor, 15)
      THEN [mask EXCEPT ![idx + 1] = 1]
      ELSE IF PixelBelow(data, idx, bgColor, 8)
      THEN [mask EXCEPT ![idx + 1] = 1]
      ELSE mask

\* The second pass over pixels lo..hi in index order.
RECURSIVE SecondPass(_, _, _, _, _, _, _)
SecondPass(lo, hi, mask, data, width, height, bgColor) ==
  IF lo > hi THEN mask
  ELSE IF lo = hi THEN SecondPassPixel(mask, lo, data, width, height, bgColor)
  ELSE LET mid == (lo + hi) \div 2
           low == SecondPass(lo, mid, mask, data, width, height, bgColor)
       \* (the test makes TLC compute low before it recurses)
       IN  IF low = <<>> THEN low
           ELSE SecondPass(mid + 1, hi, low, data, width, height, bgColor)

\* The mask and the visited array after the two seeding loops of lines
\* 790-801.
floodFromBorders(data, width, height, bgColor) ==
  FloodFromSeeds(SeedCandidates(width, height),
                 [mask |-> FirstPass(data, width, height, bgColor),
                  visited |-> AsTuple([k \in 1..(width * height) |-> 0]),
                  stack |-> <<>>],
                 data, width, height, bgColor)

createImprovedMask(data, width, height, bgColor) ==
  LET grown == floodFromBorders(data, width, height, bgColor)
  IN  SecondPass(0, width * height - 1, grown.mask, data, width, height, bgColor)

\* ------------------------------------------------- smoothMaskEdges (564-632)
\* The pixel is not on the outermost ring: the range of the loops of lines
\* 571-572 and 609-610.
InsideRing(x, y, width, height) ==
  x >= 1 /\ x < width - 1 /\ y >= 1 /\ y < height - 1

\* foregroundNeighbors (lines 587-594 and 615-622): the pixels labelled 1
\* among the nine of the 3x3 window of (x, y).
foregroundNeighbors(mask, x, y, width) ==
  Cardinality({ d \in (-1..1) \X (-1..1) :
                  At(mask, (y + d[2]) * width + (x + d[1])) = 1 })

\* isBoundary (lines 576-583): some pixel of the window differs from (x, y).
isBoundary(mask, x, y, width) ==
  \E dy \in -1..1 : \E dx \in -1..1 :
    At(mask, (y + dy) * width + (x + dx)) # At(mask, y * width + x)

\* The erosion pass (lines 566-601): reads mask, writes the copy eroded.
eroded(mask, width, height) ==
  AsTuple([k \in 1..Len(mask) |->
    LET x == (k - 1) % width
        y == (k - 1) \div width
    IN  IF /\ InsideRing(x, y, width, height)
           /\ isBoundary(mask, x, y, width)
           /\ mask[k] = 1
           /\ foregroundNeighbors(mask, x, y, width) < 5
        THEN 0 ELSE mask[k]])

\* The dilation pass as it would be if it read the mask instead of the copy.
dilatedFromMask(mask, erodedMask, width, height) ==
  AsTuple([k \in 1..Len(erodedMask) |->
    LET x == (k - 1) % width
        y == (k - 1) \div width
    IN  IF /\ InsideRing(x, y, width, height)
           /\ erodedMask[k] = 0
           /\ foregroundNeighbors(mask, x, y, width) >= 5
        THEN 1 ELSE erodedMask[k]])

\* The dilation pass (lines 604-629): reads the eroded copy, writes the copy
\* dilated.  The mask itself is not read.
dilated(mask, erodedMask, width, height) ==
  AsTuple([k \in 1..Len(erodedMask) |->
    LET x == (k - 1) % width
        y == (k - 1) \div width
    IN  IF /\ InsideRing(x, y, width, height)
           /\ erodedMask[k] = 0
           /\ foregroundNeighbors(erodedMask, x, y, width) >= 5
        THEN 1 ELSE erodedMask[k]])

smoothMaskEdges(mask, width, height) ==
  dilated(mask, eroded(mask, width, height), width, height)

\* ----------------------------------------------------- applyMaskWithFeathering
\* As applyMaskWithFeathering, with the mask value written as the alpha of an
\* edge pixel.
applyMaskWithFeatheringSetsMask(data, mask) ==
  AsTuple([j \in 1..Len(data) |->
    LET idx == (j - 1) \div 4
    IN  IF (j - 1) % 4 # 3 THEN data[j]
        ELSE IF At(mask, idx) = 0 THEN 0
        ELSE IF At(mask, idx) < 255 THEN At(mask, idx)
        ELSE data[j]])

\* applyMaskWithFeathering(data, mask, width, height) (lines 921-935): alpha 0
\* under mask value 0, Math.floor(data[i + 3] * (mask[idx] / 255)) under a mask
\* value below 255, the alpha as it is under 255.
applyMaskWithFeathering(data, mask) ==
  AsTuple([j \in 1..Len(data) |->
    LET idx == (j - 1) \div 4
    IN  IF (j - 1) % 4 # 3 THEN data[j]
        ELSE IF At(mask, idx) = 0 THEN 0
        ELSE IF At(mask, idx) < 255 THEN ScaleAlpha(data[j], At(mask, idx))
        ELSE data[j]])

\* --------------------------------------------------------------- ImageCropper
\* The crop box holds fractions of a pixel: the presets divide by their ratio
\* and by 2, and a resize under a preset divides or multiplies by the ratio.
\* A length is kept as the integer number of its Unit-th parts of a pixel; Unit
\* holds the factors 2 and 3 often enough for the divisions of a preset
\* followed by MaxMoves resizes to be exact.
RECURSIVE Pow(_, _)
Pow(b, n) == IF n = 0 THEN 1 ELSE b * Pow(b, n - 1)

Unit == 12 * Pow(6, MaxMoves)

Pixels(n) == n * Unit

\* Three of the presets (lines 5-26 of ImageCropper) with their ratios as
\* numerator and denominator; Free Form has none.
Presets == {"Free Form", "Square (1:1)", "Classic (3:2)"}

RatioOf(presetName) ==
  CASE presetName = "Square (1:1)" -> <<1, 1>>
    [] presetName = "Classic (3:2)" -> <<3, 2>>
    [] OTHER -> <<0, 0>>

Clamp(v, lo, hi) == Max2(lo, Min2(v, hi))

Abs(v) == IF v < 0 THEN -v ELSE v

\* applyPreset(presetName) (lines 279-324) for a container of the given size:
\* the full image for Free Form, otherwise the largest centred box of the
\* preset's ratio.
applyPreset(presetName, containerSize) ==
  LET ratio == RatioOf(presetName)
      cw == containerSize.width
      ch == containerSize.height
  IN  IF presetName = "Free Form"
      THEN [x |-> 0, y |-> 0, width |-> cw, height |-> ch]
      ELSE LET wider == ratio[1] * ch > ratio[2] * cw
               cropWidth == IF wider THEN cw ELSE (ch * ratio[1]) \div ratio[2]
               cropHeight == IF wider THEN (cw * ratio[2]) \div ratio[1] ELSE ch
           IN  [x |-> Max2(0, (cw - cropWidth) \div 2),
                y |-> Max2(0, (ch - cropHeight) \div 2),
                width |-> Min2(cropWidth, cw),
                height |-> Min2(cropHeight, ch)]

\* The branch of updateCropPosition that moves the box (lines 124-141).
MoveCrop(c, clampedX, clampedY, dragStart, containerSize) ==
  LET maxX == Max2(0, containerSize.width - c.width)
      maxY == Max2(0, containerSize.height - c.height)
  IN  [c EXCEPT !.x = Clamp(clampedX - dragStart[1], 0, maxX),
                !.y = Clamp(clampedY - dragStart[2], 0, maxY)]

\* The box the pointer asks for (lines 147-168).
CornerCrop(c, clampedX, clampedY, resizeCorner) ==
  CASE resizeCorner = "tl" ->
         [x |-> clampedX, y |-> clampedY,
          width |-> c.x + c.width - clampedX, height |-> c.y + c.height - clampedY]
    [] resizeCorner = "tr" ->
         [x |-> c.x, y |-> clampedY,
          width |-> clampedX - c.x, height |-> c.y + c.height - clampedY]
    [] resizeCorner = "bl" ->
         [x |-> clampedX, y |-> c.y,
          width |-> c.x + c.width - clampedX, height |-> clampedY - c.y]
    [] resizeCorner = "br" ->
         [x |-> c.x, y |-> c.y,
          width |-> clampedX - c.x, height |-> clampedY - c.y]

\* Math.abs(newCrop.width / newCrop.height - ratio) > 0.01 (lines 174-175): the
\* quotient is an infinity for a height of 0 and NaN for 0 / 0, which compares
\* false.
RatioIsOff(n, ratio) ==
  IF n.height = 0 THEN n.width # 0
  ELSE 100 * Abs(n.width * ratio[2] - n.height * ratio[1]) > Abs(n.height) * ratio[2]

\* Maintain aspect ratio if not free form (lines 171-189).
KeepRatio(n, c, resizeCorner, presetName) ==
  LET ratio == RatioOf(presetName)
  IN  IF presetName = "Free Form" \/ ~RatioIsOff(n, ratio) THEN n
      ELSE IF resizeCorner \in {"br", "tl"}
      THEN LET h == (n.width * ratio[2]) \div ratio[1]
           IN  [n EXCEPT !.height = h,
                         !.y = IF resizeCorner = "tl" THEN c.y + c.height - h ELSE @]
      ELSE LET w == (n.height * ratio[1]) \div ratio[2]
           IN  [n EXCEPT !.width = w,
                         !.x = IF resizeCorner = "bl" THEN c.x + c.width - w ELSE @]

\* Constrain to container (lines 192-217).
ConstrainLow(n) ==
  LET a == IF n.x < 0 THEN [n EXCEPT !.width = @ + n.x, !.x = 0] ELSE n
  IN  IF a.y < 0 THEN [a EXCEPT !.height = @ + a.y, !.y = 0] ELSE a

ConstrainHigh(n, resizeCorner, containerSize) ==
  LET a == IF n.x + n.width > containerSize.width
           THEN IF resizeCorner \in {"tr", "br"}
                THEN [n EXCEPT !.width = containerSize.width - n.x]
                ELSE LET w == n.width - ((n.x + n.width) - containerSize.width)
                     IN  [n EXCEPT !.width = w, !.x = containerSize.width - w]
           ELSE n
  IN  IF a.y + a.height > containerSize.height
      THEN IF resizeCorner \in {"bl", "br"}
           THEN [a EXCEPT !.height = containerSize.height - a.y]
           ELSE LET h == a.height - ((a.y + a.height) - containerSize.height)
                IN  [a EXCEPT !.height = h, !.y = containerSize.height - h]
      ELSE a

\* Minimum size (lines 220-233).
MinimumSize(n, resizeCorner) ==
  LET a == IF n.width < Pixels(MinCropSize)
           THEN [n EXCEPT !.width = Pixels(MinCropSize),
                          !.x = IF resizeCorner \in {"tl", "bl"}
                                THEN @ - (Pixels(MinCropSize) - n.width) ELSE @]
           ELSE n
  IN  IF a.height < Pixels(MinCropSize)
      THEN [a EXCEPT !.height = Pixels(MinCropSize),
                     !.y = IF resizeCorner \in {"tl", "tr"}
                           THEN @ - (Pixels(MinCropSize) - a.height) ELSE @]
      ELSE a

\* Final bounds check (lines 236-239), each line reading what the lines before
\* it wrote.
FinalBounds(n, containerSize) ==
  LET x1 == Max2(0, Min2(n.x, containerSize.width - n.width))
      y1 == Max2(0, Min2(n.y, containerSize.height - n.height))
  IN  [x |-> x1, y |-> y1,
       width |-> Max2(Pixels(MinCropSize), Min2(n.width, containerSize.width - x1)),
       height |-> Max2(Pixels(MinCropSize), Min2(n.height, containerSize.height - y1))]

\* The branch of updateCropPosition that resizes the box (lines 142-242).
ResizeCrop(c, clampedX, clampedY, resizeCorner, presetName, containerSize) ==
  FinalBounds(
    MinimumSize(
      ConstrainHigh(
        ConstrainLow(
          KeepRatio(CornerCrop(c, clampedX, clampedY, resizeCorner),
                    c, resizeCorner, presetName)),
        resizeCorner, containerSize),
      resizeCorner),
    containerSize)

\* ------------------------------------------------------------------ inputs
Grey == <<200, 200, 200>>
BorderColour == <<0, 0, 255>>
BlockColour == <<255, 255, 0>>

\* Side of the images with a centred block: a block of BlockMargin pixels with
\* BlockMargin pixels of border colour on every side.
BlockSide == 3 * BlockMargin

InBlock(px, py, width, height) ==
  /\ px >= BlockMargin /\ px < width - BlockMargin
  /\ py >= BlockMargin /\ py < height - BlockMargin

UniformImage(width, height, c, a) ==
  [ok |-> TRUE, kind |-> "uniform", urlOk |-> TRUE, w |-> width, h |-> height,
   px |-> [i \in 1..(4 * width * height) |->
            IF (i - 1) % 4 = 3 THEN a ELSE c[((i - 1) % 4) + 1]]]

BlockImage(width, height, border, block, a) ==
  [ok |-> TRUE, kind |-> "block", urlOk |-> TRUE, w |-> width, h |-> height,
   px |-> [i \in 1..(4 * width * height) |->
            LET idx == (i - 1) \div 4
            IN  IF (i - 1) % 4 = 3 THEN a
                ELSE IF InBlock(idx % width, idx \div width, width, height)
                     THEN block[((i - 1) % 4) + 1]
                     ELSE border[((i - 1) % 4) + 1]]]

\* A file that is no image, behind a well-formed data URL: the Image element
\* fires onerror.
Undecodable ==
  [ok |-> FALSE, kind |-> "undecodable", urlOk |-> TRUE, w |-> 0, h |-> 0, px |-> <<>>]

\* A zero-byte input whose data URL has no "<mime>;" part.
EmptyInput ==
  [ok |-> FALSE, kind |-> "empty", urlOk |-> FALSE, w |-> 0, h |-> 0, px |-> <<>>]

\* dataURLtoBlob (lines 21-31) reads [1] of the match of /:(.*?);/ on the part
\* before the comma: a URL without that part makes it throw a TypeError.
dataURLtoBlobThrows(img) == ~img.urlOk

Inputs ==
  { Undecodable,
    EmptyInput,
    UniformImage(SmallSide, SmallSide, Grey, 255),
    UniformImage(BlockSide, BlockSide, Grey, 255),
    BlockImage(BlockSide, BlockSide, BorderColour, BlockColour, 255),
    BlockImage(BlockSide, BlockSide, BorderColour, BlockColour, 153) }

\* The image of the invocations that run concurrently.
TinyImage == UniformImage(1, 1, Grey, 255)

\* Segmentation masks the external model may return for a width x height
\* image (segmentation.data: 1 = person, 0 = background).
Segmentations(width, height) ==
  { [k \in 1..(width * height) |-> 0],
    [k \in 1..(width * height) |-> 1],
    [k \in 1..(width * height) |->
       IF InBlock((k - 1) % width, (k - 1) \div width, width, height) THEN 1 ELSE 0],
    [k \in 1..(width * height) |-> IF 2 * ((k - 1) % width) < width THEN 1 ELSE 0] }

\* Four colours: black, two greens that the weighted distance places 70.8 and
\* 141.6 from black, and a magenta.
Palette == << <<0, 0, 0>>, <<0, 130, 0>>, <<0, 250, 0>>, <<250, 0, 250>> >>

\* An opaque image that takes the colour of pixel (x, y) from the palette at
\* ((x * t + y * u + x * y) div 2) mod 4.
PatternImage(width, height, t, u) ==
  [ok |-> TRUE, kind |-> "pattern", urlOk |-> TRUE, w |-> width, h |-> height,
   px |-> [j \in 1..(width * height * 4) |->
            LET idx == (j - 1) \div 4
                x == idx % width
                y == idx \div width
            IN  IF (j - 1) % 4 = 3 THEN 255
                ELSE Palette[(((x * t + y * u + x * y) \div 2) % 4) + 1][((j - 1) % 4) + 1]]]

\* The images the stages of the heuristic path are tried on: patterned images
\* too small to have a border band, and patterned images with a border band
\* of one pixel.
GrowInputs ==
  { PatternImage(side, side, t, u) :
      side \in {SmallSide, BlockSide}, t \in 0..MaxStride, u \in 0..MaxStride }

\* An opaque image whose red channel changes from pixel to pixel.
RampImage(width, height) ==
  [ok |-> TRUE, kind |-> "ramp", urlOk |-> TRUE, w |-> width, h |-> height,
   px |-> [j \in 1..(width * height * 4) |->
            LET idx == (j - 1) \div 4
            IN  CASE (j - 1) % 4 = 0 -> (((idx % width) + 2 * (idx \div width)) % 5) * 3
                  [] (j - 1) % 4 = 3 -> 255
                  [] OTHER -> 0]]

\* An image whose alpha channel changes from pixel to pixel.
AlphaImage(width, height) ==
  [ok |-> TRUE, kind |-> "alpha", urlOk |-> TRUE, w |-> width, h |-> height,
   px |-> [j \in 1..(width * height * 4) |->
            LET idx == (j - 1) \div 4
            IN  IF (j - 1) % 4 = 3
                THEN <<255, 180, 90, 7>>[(((idx % width) + 2 * (idx \div width)) % 4) + 1]
                ELSE 200]]

\* The mask that is 1 on the rectangle x0..x1 by y0..y1 and 0 elsewhere.
RectMask(width, height, x0, x1, y0, y1) ==
  [k \in 1..(width * height) |->
    IF /\ (k - 1) % width >= x0 /\ (k - 1) % width <= x1
       /\ (k - 1) \div width >= y0 /\ (k - 1) \div width <= y1
    THEN 1 ELSE 0]

\* Every rectangle, every rectangular hole and the empty mask.
RectMasks(width, height) ==
  LET rects == { RectMask(width, height, x0, x1, y0, y1) :
                   x0 \in 0..(width - 1), x1 \in 0..(width - 1),
                   y0 \in 0..(height - 1), y1 \in 0..(height - 1) }
  IN  rects \cup { [k \in 1..(width * height) |-> 1 - m[k]] : m \in rects }

\* The image and segmentation pairs the pixel stages of lines 106-118 are
\* tried on.
MaskInputs ==
  LET ramp == RampImage(MaskWidth, MaskHeight)
      block == BlockImage(BlockSide, BlockSide, BorderColour, BlockColour, 255)
  IN  { <<ramp, m>> : m \in RectMasks(MaskWidth, MaskHeight) }
      \cup { <<block, m>> : m \in Segmentations(BlockSide, BlockSide) }

\* The masks the distance-based compositor is tried on: the rectangles and
\* holes with 255 for foreground, and the same with 1 for foreground.
FeatherMasks(width, height) ==
  { [k \in 1..(width * height) |-> v * m[k]] :
      m \in RectMasks(width, height), v \in {1, 255} }

\* The mask that is 1 where ((x * t + y * u + x * y) div 2) mod 4 is below q:
\* speckles, pinholes, stripes and blobs.
PatternMask(width, height, t, u, q) ==
  [k \in 1..(width * height) |->
    LET x == (k - 1) % width
        y == (k - 1) \div width
    IN  IF ((x * t + y * u + x * y) \div 2) % 4 < q THEN 1 ELSE 0]

\* The 0/1 masks refineAlgorithmMask hands to smoothMaskEdges (line 907).
RefinedMasks(width, height) ==
  { PatternMask(width, height, t, u, q) :
      t \in 0..MaxStride, u \in 0..MaxStride, q \in 1..3 }
  \cup RectMasks(width, height)

\* Side of the smallest square image that has CoreSide pixels outside the
\* border band in each direction: they are the x with BorderBand <= x <=
\* width - BorderBand (line 744).
WideSide == 2 * BorderBand - 1 + CoreSide

\* The centre of the bucket of a colour (lines 846 and 859): the colours
\* getDominantColor can return.
BucketCentre(c) ==
  [nan |-> FALSE,
   r |-> (c[1] \div bucketSize) * bucketSize + (bucketSize \div 2),
   g |-> (c[2] \div bucketSize) * bucketSize + (bucketSize \div 2),
   b |-> (c[3] \div bucketSize) * bucketSize + (bucketSize \div 2)]

\* The arguments createImprovedMask is tried on where the second pass
\* matters: patterned images with pixels outside the border band (every
\* stride along x, the strides 0 and 1 along y), with the bucket centre of
\* each colour of the palette as background colour.
WideInputs ==
  { <<PatternImage(WideSide, WideSide, t, u), BucketCentre(Palette[c])>> :
      t \in 0..MaxStride, u \in 0..1, c \in 1..Len(Palette) }

\* An image whose pixels carry the alpha values 0, 1, ..., 255 in turn.
EveryAlphaImage(width, height) ==
  [ok |-> TRUE, kind |-> "everyAlpha", urlOk |-> TRUE, w |-> width, h |-> height,
   px |-> [j \in 1..(width * height * 4) |->
            IF (j - 1) % 4 = 3 THEN ((j - 1) \div 4) % 256 ELSE 200]]

\* The mask, or alpha mask, that holds v at every pixel.
UniformMask(width, height, v) == [k \in 1..(width * height) |-> v]

\* Side of the squares cut into the masks of the distance-based compositor.
Patch == AlphaSide \div 3

\* A square of foreground at every place of the buffer and a square hole at
\* every place, with 255 and with 1 for foreground.
PatchMasks(width, height) ==
  LET squares == { RectMask(width, height, x0, x0 + Patch - 1, y0, y0 + Patch - 1) :
                     x0 \in 0..(width - Patch), y0 \in 0..(height - Patch) }
  IN  { [k \in 1..(width * height) |-> v * m[k]] : m \in squares, v \in {1, 255} }
      \cup { [k \in 1..(width * height) |-> v * (1 - m[k])] : m \in squares, v \in {1, 255} }

\* The compositor calls that are tried: the compositor's name, its alpha mask
\* and its mask.
CompositeInputs ==
  { <<"applyAlphaMask", UniformMask(AlphaSide, AlphaSide, v), <<>> >> : v \in 0..255 }
  \cup { <<"applyMaskWithFeathering", <<>>, UniformMask(AlphaSide, AlphaSide, v)>> : v \in 0..255 }
  \cup { <<"applyMaskWithSmoothAlpha", <<>>, m>> : m \in PatchMasks(AlphaSide, AlphaSide) }

\* The arguments createImprovedMask is stepped through on: the patterned
\* images with a border band of one pixel, with the bucket centre of each
\* colour of the palette as background colour.
FloodInputs ==
  { <<PatternImage(BlockSide, BlockSide, t, u), BucketCentre(Palette[c])>> :
      t \in 0..MaxStride, u \in 0..MaxStride, c \in 1..Len(Palette) }

\* The sizes at which an image is displayed, in pixels: each side is the
\* minimum size of the crop box or DisplaySide.
DisplaySizes ==
  { [width |-> Pixels(w), height |-> Pixels(h)] :
      w \in {MinCropSize, DisplaySide}, h \in {MinCropSize, DisplaySide} }

\* The pointer positions along a side of the given length, relative to the
\* image wrapper: one before the image, a grid over it, one behind it.
PointerPositions(length) ==
  { Pixels(k * PointerGrid) :
      k \in { j \in -1..(DisplaySide + PointerGrid) :
                Pixels(j * PointerGrid) < length + Pixels(PointerGrid) } }

\* ------------------------------------------------------------------- state
Invocations == 1..MaxInvocations

VARIABLES
  apiKey,        \* API_KEY is configured (line 12)
  bodyPixModel,  \* the module-level cache (line 16): 0 is null, n the n-th handle
  loads,         \* number of bodyPix.load calls that have resolved
  pc,            \* position of each removeBackground invocation
  input,         \* the image behind each invocation's data URL
  remoteError,   \* the error realBackgroundRemoval threw, "none" if none
  model,         \* the handle loadBodyPixModel returned to the invocation
  data,          \* imageData.data of the invocation's canvas, <<>> before it is read
  seg,           \* segmentation.data
  trimap,
  alphaMask,
  bgColor,
  mask,
  stages,        \* the pixel stages the invocation has run, in order
  result,        \* what the removeBackground promise settled with
  app,           \* the state of App and of its ImageUploader
  refined,       \* the local refined of refineAlgorithmMask (line 869), <<>> before
  smoothed,      \* what smoothMaskEdges returned (line 907), <<>> before
  flood,         \* the locals of createImprovedMask while floodFill runs
  crop           \* the state of ImageCropper

vars == <<refined, smoothed, flood, crop, app, apiKey, bodyPixModel, loads, pc, input,
          remoteError, model, data, seg, trimap, alphaMask, bgColor, mask, stages, result>>

NoResult == [kind |-> "none", px |-> <<>>]

\* ---------------------------------------------- ImageUploader (lines 4-41)
validTypes == {"image/jpeg", "image/jpg", "image/png"}

\* The files a user may pick or drop: File objects with their type and size.
Files == [type : validTypes \cup {"image/gif", ""}, size : {0, maxSize, maxSize + 1}]

\* No file (undefined), and the null of an image state.
NoFile == [type |-> "none", size |-> 0]

\* App after its construction (lines 12-18 of App): no image, no error.  The
\* fields selections, selected and uploads record the calls of
\* handleFileSelect, its last argument and the calls of onImageUpload; reading
\* holds the files whose FileReader has not fired onload yet.  pending holds
\* the applyBackgroundColor calls whose image has not loaded yet; picks and
\* crops count the calls of handleColorChange and of handleCrop.
NewApp ==
  [originalImage |-> NoFile, processedImage |-> NoFile, finalImage |-> NoFile,
   selectedColor |-> "transparent", showCropper |-> FALSE, isProcessing |-> FALSE,
   error |-> "null", dragOver |-> FALSE,
   reading |-> {}, selections |-> 0, selected |-> NoFile, uploads |-> 0,
   pending |-> {}, picks |-> 0, crops |-> 0]

\* handleImageUpload(file) of App (lines 20-29), up to the start of the read.
handleImageUpload(a, file) ==
  [a EXCEPT !.error = "null", !.processedImage = NoFile,
            !.reading = @ \cup {file}, !.uploads = @ + 1]

\* The two validations of handleFileSelect (lines 12-21), without the second.
passesValidationAnySize(file) == file.type \in validTypes

\* The two validations of handleFileSelect (lines 12-21).
passesValidation(file) == file.type \in validTypes /\ ~(file.size > maxSize)

handleFileSelect(a, file) ==
  LET b == [a EXCEPT !.selections = @ + 1, !.selected = file]
  IN  IF file = NoFile THEN b
      ELSE IF ~passesValidation(file) THEN b
      ELSE handleImageUpload(b, file)

\* No flood fill is running.
NoFlood == [on |-> FALSE]

\* No ImageCropper is mounted.
NoCrop == [on |-> FALSE]

\* The refiner, the flood fill and the cropper before anything has called them.
Untouched ==
  /\ refined = [i \in Invocations |-> <<>>]
  /\ smoothed = [i \in Invocations |-> <<>>]
  /\ flood = NoFlood
  /\ crop = NoCrop

InitLocals ==
  /\ app = NewApp
  /\ Untouched
  /\ bodyPixModel = 0
  /\ loads = 0
  /\ remoteError = [i \in Invocations |-> "none"]
  /\ model = [i \in Invocations |-> 0]
  /\ data = [i \in Invocations |-> <<>>]
  /\ seg = [i \in Invocations |-> <<>>]
  /\ trimap = [i \in Invocations |-> <<>>]
  /\ alphaMask = [i \in Invocations |-> <<>>]
  /\ bgColor = [i \in Invocations |-> NaNColor]
  /\ mask = [i \in Invocations |-> <<>>]
  /\ stages = [i \in Invocations |-> <<>>]
  /\ result = [i \in Invocations |-> NoResult]

\* One invocation on any input; the other invocations are never made.
Init ==
  /\ apiKey \in BOOLEAN
  /\ \E img \in Inputs : input = [i \in Invocations |-> IF i = 1 THEN img ELSE Undecodable]
  /\ pc = [i \in Invocations |-> IF i = 1 THEN "idle" ELSE "off"]
  /\ InitLocals

\* Every invocation is made, each on the one-pixel image or on an undecodable
\* file.
InitRace ==
  /\ apiKey \in BOOLEAN
  /\ input \in [Invocations -> {TinyImage, Undecodable}]
  /\ pc = [i \in Invocations |-> "idle"]
  /\ InitLocals

\* The images a caller asks for twice.
RerunInputs ==
  { Undecodable,
    BlockImage(BlockSide, BlockSide, BorderColour, BlockColour, 153) }

\* One invocation, with no API key so that every run is a run of the local
\* pipeline; the caller may ask again for the same image afterwards.
InitRerun ==
  /\ apiKey = FALSE
  /\ \E img \in RerunInputs :
       input = [i \in Invocations |-> IF i = 1 THEN img ELSE Undecodable]
  /\ pc = [i \in Invocations |-> IF i = 1 THEN "idle" ELSE "off"]
  /\ InitLocals

\* One invocation that has decoded its image and received its segmentation
\* (line 103), for every image and segmentation of MaskInputs.
InitMask ==
  /\ app = NewApp
  /\ Untouched
  /\ apiKey = FALSE
  /\ bodyPixModel = 1
  /\ loads = 1
  /\ \E p \in MaskInputs :
       /\ input = [i \in Invocations |-> IF i = 1 THEN p[1] ELSE Undecodable]
       /\ data = [i \in Invocations |-> IF i = 1 THEN AsTuple(p[1].px) ELSE <<>>]
       /\ seg = [i \in Invocations |-> IF i = 1 THEN AsTuple(p[2]) ELSE <<>>]
  /\ pc = [i \in Invocations |-> IF i = 1 THEN "createTrimap" ELSE "off"]
  /\ remoteError = [i \in Invocations |->
                     IF i = 1 THEN "API key is not configured" ELSE "none"]
  /\ model = [i \in Invocations |-> IF i = 1 THEN 1 ELSE 0]
  /\ trimap = [i \in Invocations |-> <<>>]
  /\ alphaMask = [i \in Invocations |-> <<>>]
  /\ bgColor = [i \in Invocations |-> NaNColor]
  /\ mask = [i \in Invocations |-> <<>>]
  /\ stages = [i \in Invocations |-> <<>>]
  /\ result = [i \in Invocations |-> NoResult]

\* One invocation on the heuristic path that has decoded its image and read
\* the canvas (line 652), for every image of GrowInputs.
InitGrow ==
  /\ app = NewApp
  /\ Untouched
  /\ apiKey = FALSE
  /\ bodyPixModel = 0
  /\ loads = 0
  /\ \E img \in GrowInputs :
       /\ input = [i \in Invocations |-> IF i = 1 THEN img ELSE Undecodable]
       /\ data = [i \in Invocations |-> IF i = 1 THEN AsTuple(img.px) ELSE <<>>]
  /\ pc = [i \in Invocations |-> IF i = 1 THEN "getDominantColor" ELSE "off"]
  /\ remoteError = [i \in Invocations |->
                     IF i = 1 THEN "API key is not configured" ELSE "none"]
  /\ model = [i \in Invocations |-> 0]
  /\ seg = [i \in Invocations |-> <<>>]
  /\ trimap = [i \in Invocations |-> <<>>]
  /\ alphaMask = [i \in Invocations |-> <<>>]
  /\ bgColor = [i \in Invocations |-> NaNColor]
  /\ mask = [i \in Invocations |-> <<>>]
  /\ stages = [i \in Invocations |-> <<>>]
  /\ result = [i \in Invocations |-> NoResult]

\* One call of applyMaskWithSmoothAlpha about to be made, for every mask of
\* FeatherMasks.
InitFeather ==
  /\ app = NewApp
  /\ Untouched
  /\ apiKey = FALSE
  /\ bodyPixModel = 0
  /\ loads = 0
  /\ input = [i \in Invocations |->
                IF i = 1 THEN AlphaImage(MaskWidth, MaskHeight) ELSE Undecodable]
  /\ data = [i \in Invocations |->
               IF i = 1 THEN AsTuple(AlphaImage(MaskWidth, MaskHeight).px) ELSE <<>>]
  /\ \E m \in FeatherMasks(MaskWidth, MaskHeight) :
       mask = [i \in Invocations |-> IF i = 1 THEN AsTuple(m) ELSE <<>>]
  /\ pc = [i \in Invocations |-> IF i = 1 THEN "applyMaskWithSmoothAlpha" ELSE "off"]
  /\ remoteError = [i \in Invocations |-> "none"]
  /\ model = [i \in Invocations |-> 0]
  /\ seg = [i \in Invocations |-> <<>>]
  /\ trimap = [i \in Invocations |-> <<>>]
  /\ alphaMask = [i \in Invocations |-> <<>>]
  /\ bgColor = [i \in Invocations |-> NaNColor]
  /\ stages = [i \in Invocations |-> <<>>]
  /\ result = [i \in Invocations |-> NoResult]

\* The App as it is mounted, no removeBackground call being made.
InitUpload ==
  /\ apiKey = FALSE
  /\ input = [i \in Invocations |-> Undecodable]
  /\ pc = [i \in Invocations |-> "off"]
  /\ InitLocals

\* ------------------------------------------ removeBackground (lines 1023-1040)
\* The invocation's promise has settled, or its last callback has run and left
\* it pending.
Ended(i) == pc[i] \in {"resolved", "rejected", "pending"}

\* The caller asks again for the image of the invocation before, once that
\* one has ended.
Rerun(i) ==
  /\ i > 1
  /\ pc[i] = "off"
  /\ Ended(i - 1)
  /\ input' = [input EXCEPT ![i] = input[i - 1]]
  /\ pc' = [pc EXCEPT ![i] = "idle"]
  /\ UNCHANGED <<refined, smoothed, flood, crop, app, apiKey, bodyPixModel, loads, remoteError, model, data, seg, trimap,
                 alphaMask, bgColor, mask, stages, result>>

\* removeBackground calls realBackgroundRemoval, which throws at once without
\* an API key (line 954) or when dataURLtoBlob throws (line 959), and otherwise
\* starts the fetch (line 972).  The catch of line 1028 then calls
\* clientSideBackgroundRemoval.
Start(i) ==
  /\ pc[i] = "idle"
  /\ IF ~apiKey
     THEN /\ pc' = [pc EXCEPT ![i] = "client"]
          /\ remoteError' = [remoteError EXCEPT ![i] = "API key is not configured"]
     ELSE IF dataURLtoBlobThrows(input[i])
     THEN /\ pc' = [pc EXCEPT ![i] = "client"]
          /\ remoteError' = [remoteError EXCEPT ![i] = "TypeError"]
     ELSE pc' = [pc EXCEPT ![i] = "fetch"] /\ UNCHANGED remoteError
  /\ UNCHANGED <<refined, smoothed, flood, crop, app, apiKey, bodyPixModel, loads, input, model, data, seg, trimap,
                 alphaMask, bgColor, mask, stages, result>>

\* fetch rejects (lines 1008-1013).
FetchNetworkError(i) ==
  /\ pc[i] = "fetch"
  /\ pc' = [pc EXCEPT ![i] = "client"]
  /\ remoteError' = [remoteError EXCEPT ![i] = "Network error"]
  /\ UNCHANGED <<refined, smoothed, flood, crop, app, apiKey, bodyPixModel, loads, input, model, data, seg, trimap,
                 alphaMask, bgColor, mask, stages, result>>

\* !response.ok (lines 980-996).
FetchStatusError(i) ==
  /\ pc[i] = "fetch"
  /\ pc' = [pc EXCEPT ![i] = "client"]
  /\ remoteError' = [remoteError EXCEPT ![i] = "API request failed"]
  /\ UNCHANGED <<refined, smoothed, flood, crop, app, apiKey, bodyPixModel, loads, input, model, data, seg, trimap,
                 alphaMask, bgColor, mask, stages, result>>

\* response.ok: the body is read as a blob (line 999).
FetchOk(i) ==
  /\ pc[i] = "fetch"
  /\ pc' = [pc EXCEPT ![i] = "readBody"]
  /\ UNCHANGED <<refined, smoothed, flood, crop, app, apiKey, bodyPixModel, loads, input, remoteError, model, data, seg,
                 trimap, alphaMask, bgColor, mask, stages, result>>

\* response.blob() rejects or the FileReader fires onerror (lines 999-1006).
BodyReadFails(i) ==
  /\ pc[i] = "readBody"
  /\ pc' = [pc EXCEPT ![i] = "client"]
  /\ remoteError' = [remoteError EXCEPT ![i] = "Failed to read processed image"]
  /\ UNCHANGED <<refined, smoothed, flood, crop, app, apiKey, bodyPixModel, loads, input, model, data, seg, trimap,
                 alphaMask, bgColor, mask, stages, result>>

\* What a 2xx body may hold: the processed image, or bytes that are no image.
\* Nothing between line 999 and line 1006 looks at the bytes.
ResponseBodies == {"remoteImage", "remoteMalformed"}

RemoteResult(body) == [kind |-> body, px |-> <<>>]

\* The FileReader resolves with the body's data URL, which realBackgroundRemoval
\* and removeBackground return (lines 1002-1007, 1027).
BodyRead(i) ==
  /\ pc[i] = "readBody"
  /\ \E body \in ResponseBodies : result' = [result EXCEPT ![i] = RemoteResult(body)]
  /\ pc' = [pc EXCEPT ![i] = "resolved"]
  /\ UNCHANGED <<refined, smoothed, flood, crop, app, apiKey, bodyPixModel, loads, input, remoteError, model, data, seg,
                 trimap, alphaMask, bgColor, mask, stages>>

\* ------------------------------------------- loadBodyPixModel (lines 36-53)
\* clientSideBackgroundRemoval awaits loadBodyPixModel: a cached handle is
\* returned, otherwise bodyPix.load is started and awaited.
ClientLoadModel(i) ==
  /\ pc[i] = "client"
  /\ IF bodyPixModel # 0
     THEN /\ model' = [model EXCEPT ![i] = bodyPixModel]
          /\ pc' = [pc EXCEPT ![i] = "decode"]
     ELSE /\ pc' = [pc EXCEPT ![i] = "loading"]
          /\ UNCHANGED model
  /\ UNCHANGED <<refined, smoothed, flood, crop, app, apiKey, bodyPixModel, loads, input, remoteError, data, seg, trimap,
                 alphaMask, bgColor, mask, stages, result>>

\* bodyPix.load resolves with a new handle, which line 42 stores in the cache.
LoadSucceeds(i) ==
  /\ pc[i] = "loading"
  /\ loads' = loads + 1
  /\ bodyPixModel' = loads + 1
  /\ model' = [model EXCEPT ![i] = loads + 1]
  /\ pc' = [pc EXCEPT ![i] = "decode"]
  /\ UNCHANGED <<refined, smoothed, flood, crop, app, apiKey, input, remoteError, data, seg, trimap, alphaMask, bgColor,
                 mask, stages, result>>

\* bodyPix.load rejects: line 51 throws, the catch of line 119 falls back.
LoadFails(i) ==
  /\ pc[i] = "loading"
  /\ pc' = [pc EXCEPT ![i] = "hDecode"]
  /\ UNCHANGED <<refined, smoothed, flood, crop, app, apiKey, bodyPixModel, loads, input, remoteError, model, data, seg,
                 trimap, alphaMask, bgColor, mask, stages, result>>

\* ------------------------------- clientSideBackgroundRemoval (lines 59-124)
\* The Image element fires onload (lines 65-79).
DecodeOk(i) ==
  /\ pc[i] = "decode"
  /\ input[i].ok
  /\ pc' = [pc EXCEPT ![i] = "segmentPerson"]
  /\ UNCHANGED <<refined, smoothed, flood, crop, app, apiKey, bodyPixModel, loads, input, remoteError, model, data, seg,
                 trimap, alphaMask, bgColor, mask, stages, result>>

\* The Image element fires onerror: the await of line 66 throws into the catch
\* of line 119.
DecodeFails(i) ==
  /\ pc[i] = "decode"
  /\ ~input[i].ok
  /\ pc' = [pc EXCEPT ![i] = "hDecode"]
  /\ UNCHANGED <<refined, smoothed, flood, crop, app, apiKey, bodyPixModel, loads, input, remoteError, model, data, seg,
                 trimap, alphaMask, bgColor, mask, stages, result>>

\* As TakeSegmentation, with one canvas kept by the module and drawn only when
\* it is empty: a later invocation reads the buffer the one before left.
TakeSegmentationStaleCanvas(i, m) ==
  /\ seg' = [seg EXCEPT ![i] = m]
  /\ data' = [data EXCEPT ![i] =
                IF i > 1 /\ Len(data[i - 1]) = Len(input[i].px) /\ data[i - 1] # <<>>
                THEN data[i - 1] ELSE input[i].px]
  /\ pc' = [pc EXCEPT ![i] = "createTrimap"]
  /\ UNCHANGED <<refined, smoothed, flood, crop, app, apiKey, bodyPixModel, loads, input, remoteError, model, trimap,
                 alphaMask, bgColor, mask, stages, result>>

\* A segmentation resolves: segmentation.data is kept and getImageData reads
\* the canvas (lines 100-103).
TakeSegmentation(i, m) ==
  /\ seg' = [seg EXCEPT ![i] = m]
  /\ data' = [data EXCEPT ![i] = input[i].px]
  /\ pc' = [pc EXCEPT ![i] = "createTrimap"]
  /\ UNCHANGED <<refined, smoothed, flood, crop, app, apiKey, bodyPixModel, loads, input, remoteError, model, trimap,
                 alphaMask, bgColor, mask, stages, result>>

SegmentPersonOk(i) ==
  /\ pc[i] = "segmentPerson"
  /\ \E m \in Segmentations(input[i].w, input[i].h) : TakeSegmentation(i, m)

\* segmentPerson rejects: the catch of line 89 tries segmentMultiPerson.
SegmentPersonFails(i) ==
  /\ pc[i] = "segmentPerson"
  /\ pc' = [pc EXCEPT ![i] = "segmentMultiPerson"]
  /\ UNCHANGED <<refined, smoothed, flood, crop, app, apiKey, bodyPixModel, loads, input, remoteError, model, data, seg,
                 trimap, alphaMask, bgColor, mask, stages, result>>

SegmentMultiOk(i) ==
  /\ pc[i] = "segmentMultiPerson"
  /\ \E m \in Segmentations(input[i].w, input[i].h) : TakeSegmentation(i, m)

\* segmentMultiPerson rejects as well: the catch of line 119 falls back.
SegmentMultiFails(i) ==
  /\ pc[i] = "segmentMultiPerson"
  /\ pc' = [pc EXCEPT ![i] = "hDecode"]
  /\ UNCHANGED <<refined, smoothed, flood, crop, app, apiKey, bodyPixModel, loads, input, remoteError, model, data, seg,
                 trimap, alphaMask, bgColor, mask, stages, result>>

\* The statement after each stage of lines 106-118.
NextModelStageSkipsMatting(p) ==
  CASE p = "createTrimap" -> "applyAlphaMask"
    [] p = "applyAlphaMatting" -> "applyAlphaMask"
    [] p = "applyAlphaMask" -> "resolved"

NextModelStage(p) ==
  CASE p = "createTrimap" -> "applyAlphaMatting"
    [] p = "applyAlphaMatting" -> "applyAlphaMask"
    [] p = "applyAlphaMask" -> "resolved"

\* const trimap = createTrimap(segmentation.data, width, height)   (line 106)
TrimapStage(i) ==
  /\ pc[i] = "createTrimap"
  /\ trimap' = [trimap EXCEPT ![i] = createTrimap(seg[i], input[i].w, input[i].h)]
  /\ stages' = [stages EXCEPT ![i] = Append(@, "createTrimap")]
  /\ pc' = [pc EXCEPT ![i] = NextModelStage("createTrimap")]
  /\ UNCHANGED <<refined, smoothed, flood, crop, app, apiKey, bodyPixModel, loads, input, remoteError, model, data, seg,
                 alphaMask, bgColor, mask, result>>

\* const alphaMask = applyAlphaMatting(data, trimap, width, height)  (line 109)
MattingStage(i) ==
  /\ pc[i] = "applyAlphaMatting"
  /\ alphaMask' = [alphaMask EXCEPT ![i] =
                     applyAlphaMatting(data[i], trimap[i], input[i].w, input[i].h)]
  /\ stages' = [stages EXCEPT ![i] = Append(@, "applyAlphaMatting")]
  /\ pc' = [pc EXCEPT ![i] = NextModelStage("applyAlphaMatting")]
  /\ UNCHANGED <<refined, smoothed, flood, crop, app, apiKey, bodyPixModel, loads, input, remoteError, model, data, seg,
                 trimap, bgColor, mask, result>>

\* applyAlphaMask(data, alphaMask, width, height), putImageData and the return
\* of canvas.toDataURL (lines 112-118).
ApplyMaskStage(i) ==
  /\ pc[i] = "applyAlphaMask"
  /\ data' = [data EXCEPT ![i] = applyAlphaMask(data[i], alphaMask[i])]
  /\ stages' = [stages EXCEPT ![i] = Append(@, "applyAlphaMask")]
  /\ result' = [result EXCEPT ![i] = [kind |-> "modelPath", px |-> data'[i]]]
  /\ pc' = [pc EXCEPT ![i] = NextModelStage("applyAlphaMask")]
  /\ UNCHANGED <<refined, smoothed, flood, crop, app, apiKey, bodyPixModel, loads, input, remoteError, model, seg, trimap,
                 alphaMask, bgColor, mask>>

\* ------------------------ improvedAlgorithmBackgroundRemoval (lines 638-674)
\* As HDecodeFails, with onerror wired to resolve.
HDecodeFailsResolves(i) ==
  /\ pc[i] = "hDecode"
  /\ ~input[i].ok
  /\ result' = [result EXCEPT ![i] = [kind |-> "heuristicPath", px |-> <<>>]]
  /\ pc' = [pc EXCEPT ![i] = "resolved"]
  /\ UNCHANGED <<refined, smoothed, flood, crop, app, apiKey, bodyPixModel, loads, input, remoteError, model, data, seg,
                 trimap, alphaMask, bgColor, mask, stages>>

\* img.onerror = reject: the promise rejects, clientSideBackgroundRemoval
\* rejects with it, and the catch of line 1034 throws a new Error carrying the
\* message of the remote error.
HDecodeFails(i) ==
  /\ pc[i] = "hDecode"
  /\ ~input[i].ok
  /\ result' = [result EXCEPT ![i] = [kind |-> "error", px |-> <<>>]]
  /\ pc' = [pc EXCEPT ![i] = "rejected"]
  /\ UNCHANGED <<refined, smoothed, flood, crop, app, apiKey, bodyPixModel, loads, input, remoteError, model, data, seg,
                 trimap, alphaMask, bgColor, mask, stages>>

\* img.onload starts: the canvas is drawn and read (lines 641-652).
HDecodeOk(i) ==
  /\ pc[i] = "hDecode"
  /\ input[i].ok
  /\ data' = [data EXCEPT ![i] = input[i].px]
  /\ pc' = [pc EXCEPT ![i] = "getDominantColor"]
  /\ UNCHANGED <<refined, smoothed, flood, crop, app, apiKey, bodyPixModel, loads, input, remoteError, model, seg, trimap,
                 alphaMask, bgColor, mask, stages, result>>

\* getBorderColors and getDominantColor (lines 655-656).
SampleStage(i) ==
  /\ pc[i] = "getDominantColor"
  /\ bgColor' = [bgColor EXCEPT ![i] =
                   getDominantColor(data[i], getBorderColors(input[i].w, input[i].h))]
  /\ stages' = [stages EXCEPT ![i] = Append(@, "getDominantColor")]
  /\ pc' = [pc EXCEPT ![i] = "createImprovedMask"]
  /\ UNCHANGED <<refined, smoothed, flood, crop, app, apiKey, bodyPixModel, loads, input, remoteError, model, data, seg,
                 trimap, alphaMask, mask, result>>

\* createImprovedMask (line 659).
GrowStage(i) ==
  /\ pc[i] = "createImprovedMask"
  /\ mask' = [mask EXCEPT ![i] =
                createImprovedMask(data[i], input[i].w, input[i].h, bgColor[i])]
  /\ stages' = [stages EXCEPT ![i] = Append(@, "createImprovedMask")]
  /\ pc' = [pc EXCEPT ![i] = "refineAlgorithmMask"]
  /\ UNCHANGED <<refined, smoothed, flood, crop, app, apiKey, bodyPixModel, loads, input, remoteError, model, data, seg,
                 trimap, alphaMask, bgColor, result>>

\* refineAlgorithmMask (line 662) begins with a call of detectImageEdges
\* (line 868), a name the module neither defines nor imports: the call throws a
\* ReferenceError.  The throw happens inside the onload handler, outside the
\* promise executor, so neither resolve nor reject is ever called: the promise
\* of line 639 stays pending, and with it the promises of
\* clientSideBackgroundRemoval and removeBackground.  applyMaskWithFeathering
\* (line 665) is never reached.
RefineStage(i) ==
  /\ pc[i] = "refineAlgorithmMask"
  /\ stages' = [stages EXCEPT ![i] = Append(@, "refineAlgorithmMask")]
  /\ pc' = [pc EXCEPT ![i] = "pending"]
  /\ UNCHANGED <<refined, smoothed, flood, crop, app, apiKey, bodyPixModel, loads, input, remoteError, model, data, seg,
                 trimap, alphaMask, bgColor, mask, result>>

\* ------------------------------------------------------------ specification
\* One step of realBackgroundRemoval once the request is sent.
RemoteStep(i) ==
  \/ FetchNetworkError(i)
  \/ FetchStatusError(i)
  \/ FetchOk(i)
  \/ BodyReadFails(i)
  \/ BodyRead(i)

\* One step of clientSideBackgroundRemoval and of what it calls.
LocalStep(i) ==
  \/ ClientLoadModel(i)
  \/ LoadSucceeds(i)
  \/ LoadFails(i)
  \/ DecodeOk(i)
  \/ DecodeFails(i)
  \/ SegmentPersonOk(i)
  \/ SegmentPersonFails(i)
  \/ SegmentMultiOk(i)
  \/ SegmentMultiFails(i)
  \/ TrimapStage(i)
  \/ MattingStage(i)
  \/ ApplyMaskStage(i)
  \/ HDecodeFails(i)
  \/ HDecodeOk(i)
  \/ SampleStage(i)
  \/ GrowStage(i)
  \/ RefineStage(i)

Next == \E i \in Invocations : Start(i) \/ RemoteStep(i) \/ LocalStep(i)

NextRerun == \E i \in Invocations : Start(i) \/ LocalStep(i) \/ Rerun(i)

Spec == Init /\ [][Next]_vars

SpecRace == InitRace /\ [][Next]_vars

SpecRerun == InitRerun /\ [][NextRerun]_vars

\* The pixel stages of the model path alone.
NextMask == \E i \in Invocations :
  TrimapStage(i) \/ MattingStage(i) \/ ApplyMaskStage(i)

SpecMask == InitMask /\ [][NextMask]_vars

\* -------------------------------------------------- the uploader's handlers
\* The ImageUploader is rendered while there is no original image (line 122
\* of App).
UploaderShown == app.originalImage = NoFile

\* handleInputChange (lines 26-29): the file dialog closes with a file or
\* without one.
InputChange(file) ==
  /\ UploaderShown
  /\ app.selections < MaxSelections
  /\ app' = handleFileSelect(app, file)
  /\ UNCHANGED <<refined, smoothed, flood, crop, apiKey, bodyPixModel, loads, pc, input, remoteError, model, data, seg,
                 trimap, alphaMask, bgColor, mask, stages, result>>

\* handleDrop (lines 31-41).
Drop(file) ==
  /\ UploaderShown
  /\ app.selections < MaxSelections
  /\ app' = [handleFileSelect(app, file) EXCEPT !.dragOver = FALSE]
  /\ UNCHANGED <<refined, smoothed, flood, crop, apiKey, bodyPixModel, loads, pc, input, remoteError, model, data, seg,
                 trimap, alphaMask, bgColor, mask, stages, result>>

\* handleDragOver (lines 43-49).
DragOver ==
  /\ UploaderShown
  /\ app' = [app EXCEPT !.dragOver = TRUE]
  /\ UNCHANGED <<refined, smoothed, flood, crop, apiKey, bodyPixModel, loads, pc, input, remoteError, model, data, seg,
                 trimap, alphaMask, bgColor, mask, stages, result>>

\* handleDragLeave (lines 51-57).
DragLeave ==
  /\ UploaderShown
  /\ app' = [app EXCEPT !.dragOver = FALSE]
  /\ UNCHANGED <<refined, smoothed, flood, crop, apiKey, bodyPixModel, loads, pc, input, remoteError, model, data, seg,
                 trimap, alphaMask, bgColor, mask, stages, result>>

\* reader.onload of handleImageUpload (lines 25-27 of App): the readers fire
\* in any order.
ReaderLoad(file) ==
  /\ file \in app.reading
  /\ app' = [app EXCEPT !.originalImage = file, !.reading = @ \ {file}]
  /\ UNCHANGED <<refined, smoothed, flood, crop, apiKey, bodyPixModel, loads, pc, input, remoteError, model, data, seg,
                 trimap, alphaMask, bgColor, mask, stages, result>>

\* handleReset of App (lines 89-95); its button is rendered with the original
\* image, is disabled while isProcessing (line 204) and lies under the
\* cropper's modal while that is shown.
Reset ==
  /\ ~UploaderShown
  /\ ~app.isProcessing
  /\ ~app.showCropper
  /\ app' = [app EXCEPT !.originalImage = NoFile, !.processedImage = NoFile,
                        !.finalImage = NoFile, !.selectedColor = "transparent",
                        !.error = "null"]
  /\ UNCHANGED <<refined, smoothed, flood, crop, apiKey, bodyPixModel, loads, pc, input, remoteError, model, data, seg,
                 trimap, alphaMask, bgColor, mask, stages, result>>

NextUpload ==
  \/ \E file \in Files \cup {NoFile} : InputChange(file) \/ Drop(file)
  \/ DragOver
  \/ DragLeave
  \/ \E file \in Files : ReaderLoad(file)
  \/ Reset

SpecUpload == InitUpload /\ [][NextUpload]_vars

\* applyMaskWithSmoothAlpha(imageData, mask, width, height) (lines 484-504).
SmoothAlphaStage(i) ==
  /\ pc[i] = "applyMaskWithSmoothAlpha"
  /\ data' = [data EXCEPT ![i] =
                applyMaskWithSmoothAlpha(data[i], mask[i], input[i].w, input[i].h)]
  /\ stages' = [stages EXCEPT ![i] = Append(@, "applyMaskWithSmoothAlpha")]
  /\ pc' = [pc EXCEPT ![i] = "returned"]
  /\ UNCHANGED <<refined, smoothed, flood, crop, app, apiKey, bodyPixModel, loads, input, remoteError, model, seg, trimap,
                 alphaMask, bgColor, mask, result>>

\* The distance-based compositor alone.
NextFeather == \E i \in Invocations : SmoothAlphaStage(i)

SpecFeather == InitFeather /\ [][NextFeather]_vars

\* The pixel stages of the heuristic path alone.
NextGrow == \E i \in Invocations :
  SampleStage(i) \/ GrowStage(i) \/ RefineStage(i)

SpecGrow == InitGrow /\ [][NextGrow]_vars

\* One call of smoothMaskEdges about to be made (line 907), for every mask of
\* RefinedMasks.
InitSmooth ==
  /\ app = NewApp
  /\ apiKey = FALSE
  /\ bodyPixModel = 0
  /\ loads = 0
  /\ input = [i \in Invocations |->
                IF i = 1 THEN RampImage(MaskWidth, MaskHeight) ELSE Undecodable]
  /\ data = [i \in Invocations |->
               IF i = 1 THEN AsTuple(RampImage(MaskWidth, MaskHeight).px) ELSE <<>>]
  /\ \E m \in RefinedMasks(MaskWidth, MaskHeight) :
       refined = [i \in Invocations |-> IF i = 1 THEN AsTuple(m) ELSE <<>>]
  /\ smoothed = [i \in Invocations |-> <<>>]
  /\ flood = NoFlood
  /\ crop = NoCrop
  /\ pc = [i \in Invocations |-> IF i = 1 THEN "smoothMaskEdges" ELSE "off"]
  /\ remoteError = [i \in Invocations |-> "none"]
  /\ model = [i \in Invocations |-> 0]
  /\ seg = [i \in Invocations |-> <<>>]
  /\ trimap = [i \in Invocations |-> <<>>]
  /\ alphaMask = [i \in Invocations |-> <<>>]
  /\ bgColor = [i \in Invocations |-> NaNColor]
  /\ mask = [i \in Invocations |-> <<>>]
  /\ stages = [i \in Invocations |-> <<>>]
  /\ result = [i \in Invocations |-> NoResult]

\* smoothMaskEdges(refined, width, height) (line 907).
SmoothStage(i) ==
  /\ pc[i] = "smoothMaskEdges"
  /\ smoothed' = [smoothed EXCEPT ![i] =
                    smoothMaskEdges(refined[i], input[i].w, input[i].h)]
  /\ stages' = [stages EXCEPT ![i] = Append(@, "smoothMaskEdges")]
  /\ pc' = [pc EXCEPT ![i] = "returned"]
  /\ UNCHANGED <<refined, flood, crop, app, apiKey, bodyPixModel, loads, input,
                 remoteError, model, data, seg, trimap, alphaMask, bgColor, mask, result>>

\* The morphological step alone.
NextSmooth == \E i \in Invocations : SmoothStage(i)

SpecSmooth == InitSmooth /\ [][NextSmooth]_vars

\* One call of createImprovedMask about to be made (line 659), for every
\* image and background colour of WideInputs.
InitSecond ==
  /\ app = NewApp
  /\ Untouched
  /\ apiKey = FALSE
  /\ bodyPixModel = 0
  /\ loads = 0
  /\ \E p \in WideInputs :
       /\ input = [i \in Invocations |-> IF i = 1 THEN p[1] ELSE Undecodable]
       /\ data = [i \in Invocations |-> IF i = 1 THEN AsTuple(p[1].px) ELSE <<>>]
       /\ bgColor = [i \in Invocations |-> IF i = 1 THEN p[2] ELSE NaNColor]
  /\ pc = [i \in Invocations |-> IF i = 1 THEN "createImprovedMask" ELSE "off"]
  /\ remoteError = [i \in Invocations |->
                     IF i = 1 THEN "API key is not configured" ELSE "none"]
  /\ model = [i \in Invocations |-> 0]
  /\ seg = [i \in Invocations |-> <<>>]
  /\ trimap = [i \in Invocations |-> <<>>]
  /\ alphaMask = [i \in Invocations |-> <<>>]
  /\ mask = [i \in Invocations |-> <<>>]
  /\ stages = [i \in Invocations |-> <<>>]
  /\ result = [i \in Invocations |-> NoResult]

\* createImprovedMask up to the end of the seeding loops (lines 722-801).
FloodStage(i) ==
  /\ pc[i] = "createImprovedMask"
  /\ ~flood.on
  /\ LET grown == floodFromBorders(data[i], input[i].w, input[i].h, bgColor[i])
     IN  flood' = [on |-> TRUE, mask |-> grown.mask, visited |-> grown.visited,
                   stack |-> grown.stack]
  /\ pc' = [pc EXCEPT ![i] = "secondPass"]
  /\ UNCHANGED <<refined, smoothed, crop, app, apiKey, bodyPixModel, loads, input,
                 remoteError, model, data, seg, trimap, alphaMask, bgColor, mask, stages,
                 result>>

\* The second pass of createImprovedMask and its return (lines 804-834).
SecondPassStage(i) ==
  /\ pc[i] = "secondPass"
  /\ mask' = [mask EXCEPT ![i] =
                SecondPass(0, input[i].w * input[i].h - 1, flood.mask, data[i],
                           input[i].w, input[i].h, bgColor[i])]
  /\ stages' = [stages EXCEPT ![i] = Append(@, "createImprovedMask")]
  /\ pc' = [pc EXCEPT ![i] = "refineAlgorithmMask"]
  /\ UNCHANGED <<refined, smoothed, flood, crop, app, apiKey, bodyPixModel, loads, input,
                 remoteError, model, data, seg, trimap, alphaMask, bgColor, result>>

\* createImprovedMask in its two parts, and the refiner after it.
NextSecond == \E i \in Invocations :
  FloodStage(i) \/ SecondPassStage(i) \/ RefineStage(i)

SpecSecond == InitSecond /\ [][NextSecond]_vars

\* One call of applyMaskWithSmoothAlpha, and so of createDistanceMap, about
\* to be made on a StripWidth x StripHeight buffer, for every mask of
\* FeatherMasks.
InitStrip ==
  /\ app = NewApp
  /\ Untouched
  /\ apiKey = FALSE
  /\ bodyPixModel = 0
  /\ loads = 0
  /\ input = [i \in Invocations |->
                IF i = 1 THEN AlphaImage(StripWidth, StripHeight) ELSE Undecodable]
  /\ data = [i \in Invocations |->
               IF i = 1 THEN AsTuple(AlphaImage(StripWidth, StripHeight).px) ELSE <<>>]
  /\ \E m \in FeatherMasks(StripWidth, StripHeight) :
       mask = [i \in Invocations |-> IF i = 1 THEN AsTuple(m) ELSE <<>>]
  /\ pc = [i \in Invocations |-> IF i = 1 THEN "applyMaskWithSmoothAlpha" ELSE "off"]
  /\ remoteError = [i \in Invocations |-> "none"]
  /\ model = [i \in Invocations |-> 0]
  /\ seg = [i \in Invocations |-> <<>>]
  /\ trimap = [i \in Invocations |-> <<>>]
  /\ alphaMask = [i \in Invocations |-> <<>>]
  /\ bgColor = [i \in Invocations |-> NaNColor]
  /\ stages = [i \in Invocations |-> <<>>]
  /\ result = [i \in Invocations |-> NoResult]

\* The distance-based compositor on the strip.
SpecDistance == InitStrip /\ [][NextFeather]_vars

\* ------------------------------------------------ App's handlers (lines 31-95)
\* Three of the values the ColorPicker hands to onColorChange (lines 4-16 of
\* ColorPicker).
Colours == {"transparent", "#FFFFFF", "#FF0000"}

\* The data URL removeBackground resolved with, as App sees it: where it came
\* from, what lies behind the subject, and how often it has been cropped.
Picture(r) == [kind |-> r.kind, background |-> "transparent", cropped |-> 0]

\* new Image() fires onload, not onerror, for the data URL.
Decodable(image) == image.kind # "remoteMalformed"

\* applyBackgroundColor (lines 1055-1089 of the service): the image itself for
\* 'transparent'; otherwise the canvas is filled with the colour and the image
\* is drawn on top, so that the colour shows where the image is transparent.
applyBackgroundColor(imageDataURL, backgroundColor) ==
  IF backgroundColor = "transparent" THEN imageDataURL
  ELSE [imageDataURL EXCEPT
          !.background = IF @ = "transparent" THEN backgroundColor ELSE @]

\* handleCrop of ImageCropper (lines 364-390): the crop box of the image prop
\* is drawn on a canvas and exported as PNG; every pixel keeps its value.
croppedDataURL(image) == [image EXCEPT !.cropped = @ + 1]

\* An applyBackgroundColor call whose img.onload has not fired: who awaits it,
\* its arguments, and the number of the call.
Job(by, image, color, a) ==
  [by |-> by, image |-> image, color |-> color, call |-> a.picks + a.crops + 1]

\* The file behind originalImage once its reader has fired.
LoadedFile == [type |-> "image/png", size |-> maxSize]

\* handleRemoveBackground up to its await (lines 31-39); its button is rendered
\* while !isProcessing && !processedImage (line 175).
HandleRemoveBackground(i) ==
  /\ ~UploaderShown
  /\ ~app.isProcessing
  /\ app.processedImage = NoFile
  /\ pc[i] = "off"
  /\ \A j \in Invocations : j < i => pc[j] = "returned"
  /\ app' = [app EXCEPT !.isProcessing = TRUE, !.error = "null", !.finalImage = NoFile]
  /\ pc' = [pc EXCEPT ![i] = "idle"]
  /\ UNCHANGED <<refined, smoothed, flood, crop, apiKey, bodyPixModel, loads, input, remoteError, model, data, seg,
                 trimap, alphaMask, bgColor, mask, stages, result>>

\* The await of line 39 returns: lines 40-43 and the finally of lines 47-49.
RemovalResolved(i) ==
  /\ pc[i] = "resolved"
  /\ app' = [app EXCEPT !.processedImage = Picture(result[i]),
                        !.selectedColor = "transparent",
                        !.finalImage = Picture(result[i]),
                        !.isProcessing = FALSE]
  /\ pc' = [pc EXCEPT ![i] = "returned"]
  /\ UNCHANGED <<refined, smoothed, flood, crop, apiKey, bodyPixModel, loads, input, remoteError, model, data, seg,
                 trimap, alphaMask, bgColor, mask, stages, result>>

\* The await of line 39 throws: the catch of lines 44-46 and the finally.
RemovalRejected(i) ==
  /\ pc[i] = "rejected"
  /\ app' = [app EXCEPT !.error = "Background removal failed", !.isProcessing = FALSE]
  /\ pc' = [pc EXCEPT ![i] = "returned"]
  /\ UNCHANGED <<refined, smoothed, flood, crop, apiKey, bodyPixModel, loads, input, remoteError, model, data, seg,
                 trimap, alphaMask, bgColor, mask, stages, result>>

\* handleColorChange (lines 52-63); the ColorPicker is rendered while
\* processedImage && !isProcessing (line 139) and lies under the cropper's
\* modal.  For 'transparent' applyBackgroundColor returns a string, the await
\* resumes in a microtask and setFinalImage runs before any other event; for a
\* colour the handler waits for img.onload.
HandleColorChange(color) ==
  /\ app.processedImage # NoFile
  /\ ~app.isProcessing
  /\ ~app.showCropper
  /\ app.picks < MaxPicks
  /\ app' = IF color = "transparent"
            THEN [app EXCEPT !.selectedColor = color, !.picks = @ + 1,
                             !.finalImage = applyBackgroundColor(app.processedImage, color)]
            ELSE [app EXCEPT !.selectedColor = color, !.picks = @ + 1,
                             !.pending = @ \cup {Job("handleColorChange", app.processedImage, color, app)}]
  /\ UNCHANGED <<refined, smoothed, flood, crop, apiKey, bodyPixModel, loads, pc, input, remoteError, model, data, seg,
                 trimap, alphaMask, bgColor, mask, stages, result>>

\* What the awaiting handler does once its applyBackgroundColor call settles:
\* lines 57 and 59-60 of handleColorChange, lines 73, 76 and 82 of handleCrop.
Settled(a, job) ==
  LET b == [a EXCEPT !.pending = @ \ {job}]
  IN  IF job.by = "handleColorChange"
      THEN IF Decodable(job.image)
           THEN [b EXCEPT !.finalImage = applyBackgroundColor(job.image, job.color)]
           ELSE [b EXCEPT !.error = "Failed to apply background color"]
      ELSE IF Decodable(job.image)
           THEN [b EXCEPT !.finalImage = applyBackgroundColor(job.image, job.color),
                          !.showCropper = FALSE]
           ELSE [b EXCEPT !.finalImage = job.image, !.showCropper = FALSE]

\* img.onload or img.onerror of a pending applyBackgroundColor call fires
\* (lines 1063-1086 of the service); the pending calls settle in any order.
CompositeSettles(job) ==
  /\ job \in app.pending
  /\ app' = Settled(app, job)
  /\ UNCHANGED <<refined, smoothed, flood, crop, apiKey, bodyPixModel, loads, pc, input, remoteError, model, data, seg,
                 trimap, alphaMask, bgColor, mask, stages, result>>

\* The Crop Image button (line 188), rendered while processedImage &&
\* !isProcessing (line 184).
ShowCropper ==
  /\ app.processedImage # NoFile
  /\ ~app.isProcessing
  /\ ~app.showCropper
  /\ app' = [app EXCEPT !.showCropper = TRUE]
  /\ UNCHANGED <<refined, smoothed, flood, crop, apiKey, bodyPixModel, loads, pc, input, remoteError, model, data, seg,
                 trimap, alphaMask, bgColor, mask, stages, result>>

\* The ImageCropper is mounted (line 218).
CropperShown == app.showCropper /\ app.finalImage # NoFile

\* handleCropCancel (lines 85-87).
HandleCropCancel ==
  /\ CropperShown
  /\ app' = [app EXCEPT !.showCropper = FALSE]
  /\ UNCHANGED <<refined, smoothed, flood, crop, apiKey, bodyPixModel, loads, pc, input, remoteError, model, data, seg,
                 trimap, alphaMask, bgColor, mask, stages, result>>

\* The Crop button of the ImageCropper, whose image prop is finalImage (line
\* 220), calls onCrop with the cropped data URL, and handleCrop of App runs up
\* to its await (lines 65-72): at once to its end for 'transparent'.  drawImage
\* throws for an image that did not decode, and onCrop is not called.
HandleCrop ==
  /\ CropperShown
  /\ Decodable(app.finalImage)
  /\ app.crops < MaxCrops
  /\ LET croppedImage == croppedDataURL(app.finalImage)
     IN  app' = IF app.selectedColor = "transparent"
                THEN [app EXCEPT !.processedImage = croppedImage, !.crops = @ + 1,
                                 !.finalImage = applyBackgroundColor(croppedImage, app.selectedColor),
                                 !.showCropper = FALSE]
                ELSE [app EXCEPT !.processedImage = croppedImage, !.crops = @ + 1,
                                 !.pending = @ \cup {Job("handleCrop", croppedImage, app.selectedColor, app)}]
  /\ UNCHANGED <<refined, smoothed, flood, crop, apiKey, bodyPixModel, loads, pc, input, remoteError, model, data, seg,
                 trimap, alphaMask, bgColor, mask, stages, result>>

\* App with an original image loaded and nothing asked of it yet; every
\* removeBackground call is made on that image.
InitApp ==
  /\ apiKey \in BOOLEAN
  /\ \E img \in Inputs : input = [i \in Invocations |-> img]
  /\ pc = [i \in Invocations |-> "off"]
  /\ app = [NewApp EXCEPT !.originalImage = LoadedFile]
  /\ Untouched
  /\ bodyPixModel = 0
  /\ loads = 0
  /\ remoteError = [i \in Invocations |-> "none"]
  /\ model = [i \in Invocations |-> 0]
  /\ data = [i \in Invocations |-> <<>>]
  /\ seg = [i \in Invocations |-> <<>>]
  /\ trimap = [i \in Invocations |-> <<>>]
  /\ alphaMask = [i \in Invocations |-> <<>>]
  /\ bgColor = [i \in Invocations |-> NaNColor]
  /\ mask = [i \in Invocations |-> <<>>]
  /\ stages = [i \in Invocations |-> <<>>]
  /\ result = [i \in Invocations |-> NoResult]

NextApp ==
  \/ Next
  \/ \E i \in Invocations :
       HandleRemoveBackground(i) \/ RemovalResolved(i) \/ RemovalRejected(i)
  \/ \E color \in Colours : HandleColorChange(color)
  \/ \E job \in app.pending : CompositeSettles(job)
  \/ ShowCropper
  \/ HandleCropCancel
  \/ HandleCrop
  \/ Reset

SpecApp == InitApp /\ [][NextApp]_vars

\* ---------------------------------------------------------- the compositors
\* One call of a compositor about to be made on the image of every alpha
\* value, for every call of CompositeInputs.
InitComposite ==
  /\ app = NewApp
  /\ Untouched
  /\ apiKey = FALSE
  /\ bodyPixModel = 0
  /\ loads = 0
  /\ input = [i \in Invocations |->
                IF i = 1 THEN EveryAlphaImage(AlphaSide, AlphaSide) ELSE Undecodable]
  /\ data = [i \in Invocations |->
               IF i = 1 THEN AsTuple(EveryAlphaImage(AlphaSide, AlphaSide).px) ELSE <<>>]
  /\ \E c \in CompositeInputs :
       /\ pc = [i \in Invocations |-> IF i = 1 THEN c[1] ELSE "off"]
       /\ alphaMask = [i \in Invocations |-> IF i = 1 THEN AsTuple(c[2]) ELSE <<>>]
       /\ mask = [i \in Invocations |-> IF i = 1 THEN AsTuple(c[3]) ELSE <<>>]
  /\ remoteError = [i \in Invocations |-> "none"]
  /\ model = [i \in Invocations |-> 0]
  /\ seg = [i \in Invocations |-> <<>>]
  /\ trimap = [i \in Invocations |-> <<>>]
  /\ bgColor = [i \in Invocations |-> NaNColor]
  /\ stages = [i \in Invocations |-> <<>>]
  /\ result = [i \in Invocations |-> NoResult]

\* applyMaskWithFeathering(data, refinedMask, width, height), putImageData and
\* the resolve of canvas.toDataURL (lines 665-669).
FeatheringStage(i) ==
  /\ pc[i] = "applyMaskWithFeathering"
  /\ data' = [data EXCEPT ![i] = applyMaskWithFeathering(data[i], mask[i])]
  /\ stages' = [stages EXCEPT ![i] = Append(@, "applyMaskWithFeathering")]
  /\ result' = [result EXCEPT ![i] = [kind |-> "heuristicPath", px |-> data'[i]]]
  /\ pc' = [pc EXCEPT ![i] = "resolved"]
  /\ UNCHANGED <<refined, smoothed, flood, crop, app, apiKey, bodyPixModel, loads, input, remoteError, model, seg, trimap,
                 alphaMask, bgColor, mask>>

\* The three compositors, each alone.
NextComposite == \E i \in Invocations :
  ApplyMaskStage(i) \/ FeatheringStage(i) \/ SmoothAlphaStage(i)

SpecComposite == InitComposite /\ [][NextComposite]_vars

\* ------------------------------------------- floodFill, one iteration at a time
\* One call of createImprovedMask about to be made (line 659), for every
\* image and background colour of FloodInputs.
InitFlood ==
  /\ app = NewApp
  /\ Untouched
  /\ apiKey = FALSE
  /\ bodyPixModel = 0
  /\ loads = 0
  /\ \E p \in FloodInputs :
       /\ input = [i \in Invocations |-> IF i = 1 THEN p[1] ELSE Undecodable]
       /\ data = [i \in Invocations |-> IF i = 1 THEN AsTuple(p[1].px) ELSE <<>>]
       /\ bgColor = [i \in Invocations |-> IF i = 1 THEN p[2] ELSE NaNColor]
  /\ pc = [i \in Invocations |-> IF i = 1 THEN "createImprovedMask" ELSE "off"]
  /\ remoteError = [i \in Invocations |->
                     IF i = 1 THEN "API key is not configured" ELSE "none"]
  /\ model = [i \in Invocations |-> 0]
  /\ seg = [i \in Invocations |-> <<>>]
  /\ trimap = [i \in Invocations |-> <<>>]
  /\ alphaMask = [i \in Invocations |-> <<>>]
  /\ mask = [i \in Invocations |-> <<>>]
  /\ stages = [i \in Invocations |-> <<>>]
  /\ result = [i \in Invocations |-> NoResult]

\* The first pass, the allocation of visited and the seed candidates of the
\* two loops (lines 722-753, 789).  Beside mask, visited and stack the record
\* keeps the candidates still to test, the start pixel of the running call,
\* and what the run has done so far: the floodFill calls, the iterations of
\* the running call, the iterations that ended at the continue of line 766,
\* how often each pixel pushed its neighbours, and the coordinates at which a
\* pixel array was indexed.
FirstPassStep(i) ==
  /\ pc[i] = "createImprovedMask"
  /\ ~flood.on
  /\ flood' = [on |-> TRUE,
               mask |-> FirstPass(data[i], input[i].w, input[i].h, bgColor[i]),
               visited |-> AsTuple([k \in 1..(input[i].w * input[i].h) |-> 0]),
               stack |-> <<>>,
               seeds |-> SeedCandidates(input[i].w, input[i].h),
               startIdx |-> 0,
               calls |-> 0,
               iterations |-> 0,
               continues |-> 0,
               accepts |-> AsTuple([k \in 1..(input[i].w * input[i].h) |-> 0]),
               indexed |-> {}]
  /\ pc' = [pc EXCEPT ![i] = "seedLoop"]
  /\ UNCHANGED <<refined, smoothed, crop, app, apiKey, bodyPixModel, loads, input,
                 remoteError, model, data, seg, trimap, alphaMask, bgColor, mask, stages,
                 result>>

\* One test of the seeding loops (lines 793, 794, 799, 800): the candidate's
\* label is read and, when it is 1, floodFill is called and reads the start
\* colour (lines 755-760).
TestSeed(i) ==
  /\ pc[i] = "seedLoop"
  /\ flood.seeds # <<>>
  /\ LET sd == Head(flood.seeds)
         idx == sd[2] * input[i].w + sd[1]
     IN  IF At(flood.mask, idx) = 1
         THEN /\ flood' = [flood EXCEPT !.seeds = Tail(@), !.stack = <<sd>>,
                                        !.startIdx = idx, !.calls = @ + 1,
                                        !.iterations = 0, !.indexed = @ \cup {sd}]
              /\ pc' = [pc EXCEPT ![i] = "floodFill"]
         ELSE /\ flood' = [flood EXCEPT !.seeds = Tail(@), !.indexed = @ \cup {sd}]
              /\ UNCHANGED pc
  /\ UNCHANGED <<refined, smoothed, crop, app, apiKey, bodyPixModel, loads, input,
                 remoteError, model, data, seg, trimap, alphaMask, bgColor, mask, stages,
                 result>>

\* One iteration of the while loop of floodFill (lines 762-785).
FloodIteration(i) ==
  /\ pc[i] = "floodFill"
  /\ flood.stack # <<>>
  /\ LET s == [mask |-> flood.mask, visited |-> flood.visited, stack |-> flood.stack]
         t == FloodStep(s, data[i], input[i].w, input[i].h, bgColor[i], flood.startIdx)
         top == flood.stack[Len(flood.stack)]
         pushed == Len(t.stack) - (Len(flood.stack) - 1)
     IN  flood' = [flood EXCEPT
                     !.mask = t.mask, !.visited = t.visited, !.stack = t.stack,
                     !.iterations = @ + 1,
                     !.continues = IF FloodAccess(s, input[i].w, input[i].h) = {}
                                      \/ At(flood.visited, top[2] * input[i].w + top[1]) = 1
                                   THEN @ + 1 ELSE @,
                     !.accepts = IF pushed > 0
                                 THEN [@ EXCEPT ![top[2] * input[i].w + top[1] + 1] = @ + 1]
                                 ELSE @,
                     !.indexed = @ \cup FloodAccess(s, input[i].w, input[i].h)]
  /\ UNCHANGED <<refined, smoothed, crop, app, apiKey, bodyPixModel, loads, pc, input,
                 remoteError, model, data, seg, trimap, alphaMask, bgColor, mask, stages,
                 result>>

\* The while loop ends with the stack empty and floodFill returns (line 786).
FloodReturns(i) ==
  /\ pc[i] = "floodFill"
  /\ flood.stack = <<>>
  /\ pc' = [pc EXCEPT ![i] = "seedLoop"]
  /\ UNCHANGED <<refined, smoothed, flood, crop, app, apiKey, bodyPixModel, loads, input,
                 remoteError, model, data, seg, trimap, alphaMask, bgColor, mask, stages,
                 result>>

\* The second seeding loop ends (line 801).
SeedsDone(i) ==
  /\ pc[i] = "seedLoop"
  /\ flood.seeds = <<>>
  /\ pc' = [pc EXCEPT ![i] = "secondPass"]
  /\ UNCHANGED <<refined, smoothed, flood, crop, app, apiKey, bodyPixModel, loads, input,
                 remoteError, model, data, seg, trimap, alphaMask, bgColor, mask, stages,
                 result>>

\* createImprovedMask up to its second pass, one loop iteration at a time.
NextFlood == \E i \in Invocations :
  \/ FirstPassStep(i)
  \/ TestSeed(i)
  \/ FloodIteration(i)
  \/ FloodReturns(i)
  \/ SeedsDone(i)

SpecFlood == InitFlood /\ [][NextFlood]_vars

\* ------------------------------------------------ ImageCropper's handlers
\* The ImageCropper after its image has loaded and updateSize has run (lines
\* 45-76): the crop box is the whole displayed image, the preset Free Form and
\* no pointer is down.  moves counts the pointer moves and last names the
\* handler that wrote the crop box last.
MountedCropper(containerSize) ==
  [on |-> TRUE,
   box |-> [x |-> 0, y |-> 0, width |-> containerSize.width, height |-> containerSize.height],
   selectedPreset |-> "Free Form",
   isDragging |-> FALSE, isResizing |-> FALSE, resizeCorner |-> "null",
   dragStart |-> <<0, 0>>,
   containerSize |-> containerSize,
   moves |-> 0, last |-> "updateSize"]

\* App shows the cropper on the image a remote removal returned.
InitCrop ==
  /\ apiKey = TRUE
  /\ input = [i \in Invocations |-> TinyImage]
  /\ pc = [i \in Invocations |-> IF i = 1 THEN "returned" ELSE "off"]
  /\ result = [i \in Invocations |-> IF i = 1 THEN RemoteResult("remoteImage") ELSE NoResult]
  /\ app = [NewApp EXCEPT !.originalImage = LoadedFile,
                          !.processedImage = Picture(RemoteResult("remoteImage")),
                          !.finalImage = Picture(RemoteResult("remoteImage")),
                          !.showCropper = TRUE]
  /\ refined = [i \in Invocations |-> <<>>]
  /\ smoothed = [i \in Invocations |-> <<>>]
  /\ flood = NoFlood
  /\ \E size \in DisplaySizes : crop = MountedCropper(size)
  /\ bodyPixModel = 0
  /\ loads = 0
  /\ remoteError = [i \in Invocations |-> "none"]
  /\ model = [i \in Invocations |-> 0]
  /\ data = [i \in Invocations |-> <<>>]
  /\ seg = [i \in Invocations |-> <<>>]
  /\ trimap = [i \in Invocations |-> <<>>]
  /\ alphaMask = [i \in Invocations |-> <<>>]
  /\ bgColor = [i \in Invocations |-> NaNColor]
  /\ mask = [i \in Invocations |-> <<>>]
  /\ stages = [i \in Invocations |-> <<>>]

\* No pointer is down on the crop box.
PointerUp == ~crop.isDragging /\ ~crop.isResizing

\* The preset selector changes: setSelectedPreset and the effect of lines
\* 93-97, which calls applyPreset.
SelectPreset(presetName) ==
  /\ crop.on
  /\ PointerUp
  /\ presetName # crop.selectedPreset
  /\ crop' = [crop EXCEPT !.selectedPreset = presetName,
                          !.box = applyPreset(presetName, crop.containerSize),
                          !.last = "applyPreset"]
  /\ UNCHANGED <<refined, smoothed, flood, app, apiKey, bodyPixModel, loads, pc, input,
                 remoteError, model, data, seg, trimap, alphaMask, bgColor, mask, stages,
                 result>>

\* handleCropAreaStart (lines 326-354): a pointer goes down inside the crop
\* box.
CropAreaStart(x, y) ==
  /\ crop.on
  /\ PointerUp
  /\ x >= crop.box.x /\ x <= crop.box.x + crop.box.width
  /\ y >= crop.box.y /\ y <= crop.box.y + crop.box.height
  /\ crop' = [crop EXCEPT !.isDragging = TRUE, !.isResizing = FALSE,
                          !.dragStart = <<x - crop.box.x, y - crop.box.y>>]
  /\ UNCHANGED <<refined, smoothed, flood, app, apiKey, bodyPixModel, loads, pc, input,
                 remoteError, model, data, seg, trimap, alphaMask, bgColor, mask, stages,
                 result>>

\* handleResizeStart (lines 356-362): a pointer goes down on a corner handle.
ResizeStart(corner) ==
  /\ crop.on
  /\ PointerUp
  /\ crop' = [crop EXCEPT !.isResizing = TRUE, !.isDragging = FALSE,
                          !.resizeCorner = corner]
  /\ UNCHANGED <<refined, smoothed, flood, app, apiKey, bodyPixModel, loads, pc, input,
                 remoteError, model, data, seg, trimap, alphaMask, bgColor, mask, stages,
                 result>>

\* handleMove (lines 248-252) and updateCropPosition (lines 107-243) for a
\* pointer at (x, y) relative to the image wrapper.
PointerMove(x, y) ==
  /\ crop.on
  /\ ~PointerUp
  /\ crop.moves < MaxMoves
  /\ LET clampedX == Clamp(x, 0, crop.containerSize.width)
         clampedY == Clamp(y, 0, crop.containerSize.height)
     IN  crop' = IF crop.isDragging /\ ~crop.isResizing
                 THEN [crop EXCEPT
                         !.box = MoveCrop(crop.box, clampedX, clampedY, crop.dragStart,
                                          crop.containerSize),
                         !.moves = @ + 1, !.last = "move"]
                 ELSE [crop EXCEPT
                         !.box = ResizeCrop(crop.box, clampedX, clampedY, crop.resizeCorner,
                                            crop.selectedPreset, crop.containerSize),
                         !.moves = @ + 1, !.last = "resize"]
  /\ UNCHANGED <<refined, smoothed, flood, app, apiKey, bodyPixModel, loads, pc, input,
                 remoteError, model, data, seg, trimap, alphaMask, bgColor, mask, stages,
                 result>>

\* handleEnd (lines 254-258): the pointer goes up.
PointerEnd ==
  /\ crop.on
  /\ ~PointerUp
  /\ crop' = [crop EXCEPT !.isDragging = FALSE, !.isResizing = FALSE,
                          !.resizeCorner = "null"]
  /\ UNCHANGED <<refined, smoothed, flood, app, apiKey, bodyPixModel, loads, pc, input,
                 remoteError, model, data, seg, trimap, alphaMask, bgColor, mask, stages,
                 result>>

NextCrop ==
  \/ \E presetName \in Presets : SelectPreset(presetName)
  \/ \E x \in PointerPositions(crop.containerSize.width) :
       \E y \in PointerPositions(crop.containerSize.height) :
         CropAreaStart(x, y) \/ PointerMove(x, y)
  \/ \E corner \in {"tl", "tr", "bl", "br"} : ResizeStart(corner)
  \/ PointerEnd

SpecCrop == InitCrop /\ [][NextCrop]_vars

\* ------------------------------------------------------------------ properties
Ran(i, stage) == \E k \in 1..Len(stages[i]) : stages[i][k] = stage

PixelsOf(i) == 0..(input[i].w * input[i].h - 1)

\* The invocation is inside improvedAlgorithmBackgroundRemoval or has left it.
HeuristicPositions ==
  {"hDecode", "getDominantColor", "createImprovedMask", "refineAlgorithmMask"}

\* The onload handler of the heuristic path has stopped: its promise settled
\* with the handler's image, or the handler threw and left it pending.
HeuristicEnded(i) ==
  \/ pc[i] = "pending"
  \/ pc[i] = "resolved" /\ result[i].kind = "heuristicPath"

\* C1: for every input and on both paths, once the canvas has been read the
\* buffer keeps its length 4 * width * height and every R, G and B byte of the
\* input; the buffer equals the input until the compositing step
\* (applyAlphaMask) has run, so no earlier stage writes an alpha byte, and the
\* image a model-path run returns is that buffer.
C1_OnlyCompositorWritesAlpha ==
  \A i \in Invocations :
    data[i] # <<>> =>
      /\ Len(data[i]) = 4 * input[i].w * input[i].h
      /\ \A p \in PixelsOf(i) :
           /\ Red(data[i], p) = Red(input[i].px, p)
           /\ Green(data[i], p) = Green(input[i].px, p)
           /\ Blue(data[i], p) = Blue(input[i].px, p)
      /\ ~Ran(i, "applyAlphaMask") => data[i] = input[i].px
      /\ result[i].kind = "modelPath" => result[i].px = data[i]

\* A model-path run has resolved and its compositing step changed an alpha byte.
C1_Witness ==
  \E i \in Invocations :
    /\ pc[i] = "resolved"
    /\ result[i].kind = "modelPath"
    /\ \E p \in PixelsOf(i) : Alpha(data[i], p) # Alpha(input[i].px, p)

\* C2: on the heuristic path, for every image whose pixels all have one
\* colour, the region grower marks every pixel as background (the mark 1 of
\* createImprovedMask), the run does not stop on an error, and once it has
\* ended every alpha byte is 0.
C2_UniformImageBecomesTransparent ==
  \A i \in Invocations :
    (input[i].kind = "uniform" /\ Ran(i, "createImprovedMask")) =>
      /\ \A p \in PixelsOf(i) : At(mask[i], p) = 1
      /\ pc[i] # "pending"
      /\ HeuristicEnded(i) => \A p \in PixelsOf(i) : Alpha(data[i], p) = 0

\* C3: on the heuristic path, for a uniform border around a centred block of a
\* strongly different colour, the run ends with its image, in which every
\* pixel of the block keeps its input alpha and every pixel of the border
\* colour has alpha 0.
C3_BlockKeptBorderRemoved ==
  \A i \in Invocations :
    (input[i].kind = "block" /\ pc[i] \notin HeuristicPositions
       /\ Ran(i, "createImprovedMask")) =>
      /\ HeuristicEnded(i) /\ pc[i] = "resolved"
      /\ \A p \in PixelsOf(i) :
           IF InBlock(p % input[i].w, p \div input[i].w, input[i].w, input[i].h)
           THEN Alpha(data[i], p) = Alpha(input[i].px, p)
           ELSE Alpha(data[i], p) = 0

\* C4: when the model fails to load or to run inference on a decodable image,
\* the heuristic path runs instead and the caller of removeBackground receives
\* that path's image: the run is still inside the heuristic path, or its
\* promise has resolved with that path's image; it is never left unsettled.
C4_FallbackDeliversHeuristicImage ==
  \A i \in Invocations :
    (input[i].ok /\ (pc[i] \in HeuristicPositions \/ HeuristicEnded(i))) =>
      \/ pc[i] \in HeuristicPositions
      \/ pc[i] = "resolved" /\ result[i].kind = "heuristicPath"

\* C5: for each kind of remote failure (network error, non-2xx status, a body
\* that is no image) removeBackground hands over to
\* clientSideBackgroundRemoval and never returns the remote response or the
\* remote error while the local pipeline has not run.
C5_RemoteFailurePassesToLocal ==
  \A i \in Invocations :
    /\ result[i].kind # "remoteMalformed"
    /\ remoteError[i] # "none" =>
         /\ pc[i] \notin {"idle", "fetch", "readBody"}
         /\ result[i].kind \notin {"remoteImage", "remoteMalformed"}

\* The stage of the specification's pipeline that a function of the source is.
StageOf(name) ==
  CASE name = "getDominantColor" -> "Color Sampler"
    [] name = "createImprovedMask" -> "Region Grower"
    [] name = "createTrimap" -> "Trimap Builder"
    [] name = "applyAlphaMatting" -> "Matte Estimator"
    [] name = "refineAlgorithmMask" -> "Mask Refiner"
    [] name = "applyAlphaMask" -> "Compositor"

\* The stages an invocation ran once it had its binary mask.
LaterStages(i) ==
  LET later == SelectSeq(stages[i],
                 LAMBDA n : n \notin {"getDominantColor", "createImprovedMask"})
  IN  [k \in 1..Len(later) |-> StageOf(later[k])]

\* The local pipeline of the invocation has stopped.
LocalEnded(i) ==
  \/ HeuristicEnded(i)
  \/ pc[i] = "resolved" /\ result[i].kind = "modelPath"

ModelStages == <<"createTrimap", "applyAlphaMatting", "applyAlphaMask">>

HeuristicStages == <<"getDominantColor", "createImprovedMask", "refineAlgorithmMask">>

IsPrefix(s, t) == Len(s) <= Len(t) /\ s = SubSeq(t, 1, Len(s))

BlockBoundary(i) ==
  { p \in PixelsOf(i) :
      LET x == p % input[i].w
          y == p \div input[i].w
      IN  /\ InBlock(x, y, input[i].w, input[i].h)
          /\ \/ ~InBlock(x - 1, y, input[i].w, input[i].h)
             \/ ~InBlock(x + 1, y, input[i].w, input[i].h)
             \/ ~InBlock(x, y - 1, input[i].w, input[i].h)
             \/ ~InBlock(x, y + 1, input[i].w, input[i].h) }

\* C8: on the heuristic path, for an image with a high-contrast centred block,
\* once the run has stopped some pixel at the block's boundary has an alpha
\* strictly between 0 and 255 that is not its input alpha.
C8_BoundaryIsFeathered ==
  \A i \in Invocations :
    (input[i].kind = "block" /\ pc[i] \notin HeuristicPositions
       /\ Ran(i, "createImprovedMask")) =>
      \E p \in BlockBoundary(i) :
        /\ Alpha(data[i], p) > 0
        /\ Alpha(data[i], p) < 255
        /\ Alpha(data[i], p) # Alpha(input[i].px, p)

\* The invocation has left realBackgroundRemoval with an error and is in, or
\* has left, clientSideBackgroundRemoval.
InLocalPipeline(i) == remoteError[i] # "none"

\* C9 as amended: an input that cannot be decoded never reaches a pixel stage:
\* no buffer is read and no stage runs.  Once the remote call has failed (with
\* a zero-byte input whose data URL dataURLtoBlob cannot split, it fails before
\* any request is sent) the invocation goes through the model load and the two
\* decode attempts only, never resolves and never stays unsettled: where it
\* stops, removeBackground has rejected with an error.
C9_UndecodableRejectsWithoutPixelStage ==
  \A i \in Invocations :
    ~input[i].ok =>
      /\ stages[i] = <<>>
      /\ data[i] = <<>>
      /\ input[i].kind = "empty" => pc[i] \notin {"fetch", "readBody", "resolved"}
      /\ InLocalPipeline(i) =>
           /\ pc[i] \in {"client", "loading", "decode", "hDecode", "rejected"}
           /\ pc[i] = "rejected" <=> result[i].kind = "error"
           /\ \/ pc[i] = "rejected"
              \/ ENABLED (ClientLoadModel(i) \/ LoadSucceeds(i) \/ LoadFails(i)
                            \/ DecodeFails(i) \/ HDecodeFails(i))

\* removeBackground has rejected for an undecodable input after the model
\* loaded and the first decode attempt failed.
C9_Witness ==
  \E i \in Invocations :
    /\ ~input[i].ok
    /\ pc[i] = "rejected"
    /\ result[i].kind = "error"
    /\ model[i] # 0

\* C9 as stated: for an input that cannot be decoded, removeBackground never
\* resolves.
C9_UndecodableNeverResolves ==
  \A i \in Invocations : ~input[i].ok => pc[i] # "resolved"

\* C10: in every interleaving the model is loaded at most once, and once a
\* handle is cached no invocation replaces it.
C10_ModelLoadedOnce ==
  [][loads' <= 1 /\ (bodyPixModel # 0 => bodyPixModel' = bodyPixModel)]_vars

\* ------------------------------------------------------------------ C11
\* The pixels of invocation i that carry the label in its trimap.
Labelled(i, label) == { k \in 1..Len(trimap[i]) : trimap[i][k] = label }

\* C11: the trimap createTrimap returns has exactly width * height entries,
\* each of them 0, 128 or 255, so that the numbers of background, unknown and
\* foreground pixels add up to width * height.
C11_TrimapHasThreeLabels ==
  \A i \in Invocations :
    Ran(i, "createTrimap") =>
      /\ Len(trimap[i]) = input[i].w * input[i].h
      /\ \A k \in 1..Len(trimap[i]) : trimap[i][k] \in {0, 128, 255}
      /\ Cardinality(Labelled(i, 0)) + Cardinality(Labelled(i, 128))
           + Cardinality(Labelled(i, 255)) = input[i].w * input[i].h

\* A trimap of a rectangle mask in which all three labels occur.
C11_Witness ==
  \E i \in Invocations :
    /\ Ran(i, "createTrimap")
    /\ input[i].kind = "ramp"
    /\ Labelled(i, 0) # {} /\ Labelled(i, 128) # {} /\ Labelled(i, 255) # {}

\* ------------------------------------------------------------------ C12
\* The larger of the horizontal and the vertical distance of two pixels.
Chebyshev(x1, y1, x2, y2) ==
  Max2(IF x1 > x2 THEN x1 - x2 ELSE x2 - x1, IF y1 > y2 THEN y1 - y2 ELSE y2 - y1)

\* Pixel (x, y) lies at least unknownRadius pixels from every edge of the
\* buffer.
AwayFromEdges(x, y, width, height) ==
  /\ x >= unknownRadius /\ (width - 1) - x >= unknownRadius
  /\ y >= unknownRadius /\ (height - 1) - y >= unknownRadius

\* Some other pixel within Chebyshev distance unknownRadius of (x, y) is on the
\* other side of the input mask.
MixedNeighbourhood(i, x, y) ==
  \E n \in PixelsOf(i) :
    /\ n # y * input[i].w + x
    /\ Chebyshev(x, y, n % input[i].w, n \div input[i].w) <= unknownRadius
    /\ (At(seg[i], n) = 0) # (At(seg[i], y * input[i].w + x) = 0)

\* C12: a pixel of the trimap is unknown (128) exactly when it lies at least
\* 3 pixels from every edge of the buffer and some other pixel within
\* Chebyshev distance 3 has a different label in the input mask; every other
\* pixel keeps its known label, 0 for background and 255 for foreground.
C12_UnknownBandAroundBoundary ==
  \A i \in Invocations :
    Ran(i, "createTrimap") =>
      \A n \in PixelsOf(i) :
        LET x == n % input[i].w
            y == n \div input[i].w
        IN  IF AwayFromEdges(x, y, input[i].w, input[i].h) /\ MixedNeighbourhood(i, x, y)
            THEN At(trimap[i], n) = 128
            ELSE At(trimap[i], n) = (IF At(seg[i], n) = 0 THEN 0 ELSE 255)

\* A trimap with an unknown pixel, and with a pixel that has a neighbour of
\* the other label within the radius but is too close to an edge to be unknown.
C12_Witness ==
  \E i \in Invocations :
    /\ Ran(i, "createTrimap")
    /\ \E n \in PixelsOf(i) : At(trimap[i], n) = 128
    /\ \E n \in PixelsOf(i) :
         /\ MixedNeighbourhood(i, n % input[i].w, n \div input[i].w)
         /\ ~AwayFromEdges(n % input[i].w, n \div input[i].w, input[i].w, input[i].h)
         /\ At(trimap[i], n) # 128

\* ------------------------------------------------------------------ C13
\* The matte of invocation i as it was handed to smoothAlpha (line 211).
Unsmoothed(i) == MatteBeforeSmoothing(data[i], trimap[i], input[i].w, input[i].h)

\* C13: in the matte applyAlphaMatting returns, a pixel of trimap label 0 has
\* alpha 0, a pixel of label 255 has alpha 255 and a pixel of label 128 has an
\* integer alpha in 0..255; the 3x3 smoothing pass changes no pixel but those
\* labelled 128.
C13_KnownPixelsKeepTheirAlpha ==
  \A i \in Invocations :
    Ran(i, "applyAlphaMatting") =>
      /\ Len(alphaMask[i]) = Len(trimap[i])
      /\ \A k \in 1..Len(trimap[i]) :
           /\ trimap[i][k] = 0 => alphaMask[i][k] = 0
           /\ trimap[i][k] = 255 => alphaMask[i][k] = 255
           /\ trimap[i][k] = 128 => alphaMask[i][k] \in 0..255
           /\ alphaMask[i][k] # Unsmoothed(i)[k] => trimap[i][k] = 128

\* A matte with pixels of all three labels in which the smoothing pass has
\* changed an unknown pixel that has a known pixel among its eight neighbours.
C13_Witness ==
  \E i \in Invocations :
    /\ Ran(i, "applyAlphaMatting")
    /\ Labelled(i, 0) # {} /\ Labelled(i, 255) # {}
    /\ \E k \in Labelled(i, 128) :
         /\ alphaMask[i][k] # Unsmoothed(i)[k]
         /\ \E d \in {1, input[i].w} :
              k + d \in 1..Len(trimap[i]) /\ trimap[i][k + d] # 128

\* ------------------------------------------------------------------ C20
\* The pixels of the given trimap label in the window of radius sampleRadius
\* around (x, y), clipped to the buffer.
Window(i, x, y, label) ==
  { n \in PixelsOf(i) :
      /\ Chebyshev(x, y, n % input[i].w, n \div input[i].w) <= sampleRadius
      /\ At(trimap[i], n) = label }

\* Sum of one colour channel over a set of pixels, value by value.
RECURSIVE SumOfValues(_, _, _, _)
SumOfValues(vals, i, S, off) ==
  IF vals = {} THEN 0
  ELSE LET v == CHOOSE u \in vals : TRUE
       IN  v * Cardinality({ n \in S : At(data[i], n * 4 + off) = v })
             + SumOfValues(vals \ {v}, i, S, off)

ChannelMean(i, S, off) ==
  SumOfValues({ At(data[i], n * 4 + off) : n \in S }, i, S, off) \div Cardinality(S)

\* Channel-wise mean of the pixels of S, rounded down (lines 251-253), or the
\* default colour.
WindowMean(i, S, default) ==
  IF S = {} THEN default
  ELSE <<ChannelMean(i, S, 0), ChannelMean(i, S, 1), ChannelMean(i, S, 2)>>

\* Square of the Euclidean RGB distance of pixel n to the colour c.
SqDistTo(i, n, c) ==
  (Red(data[i], n) - c[1]) * (Red(data[i], n) - c[1])
  + (Green(data[i], n) - c[2]) * (Green(data[i], n) - c[2])
  + (Blue(data[i], n) - c[3]) * (Blue(data[i], n) - c[3])

SqDistFg(i, n) ==
  SqDistTo(i, n, WindowMean(i, Window(i, n % input[i].w, n \div input[i].w, 255),
                            <<0, 0, 0>>))

SqDistBg(i, n) ==
  SqDistTo(i, n, WindowMean(i, Window(i, n % input[i].w, n \div input[i].w, 0),
                            <<255, 255, 255>>))

\* k is the exact value of 255 * (1 - dFg / (dFg + dBg)) rounded down, where
\* a = dFg^2 and b = dBg^2 are not both 0.
IsExactFloor(k, a, b) ==
  /\ k \in 0..255
  /\ AlphaLeq(k, a, b)
  /\ k = 255 \/ ~AlphaLeq(k + 1, a, b)

\* The exact value is the integer k.
IsExactInteger(k, a, b) ==
  MulWide(k * k, a) = MulWide((255 - k) * (255 - k), b)

\* C20: for each unknown pixel, the alpha stored before smoothing is
\* 255 * (1 - dFg / (dFg + dBg)) evaluated in doubles and cut to its integer
\* part, where dFg and dBg are the Euclidean RGB distances from the pixel to
\* the channel-wise rounded-down mean colour of the known-foreground and of the
\* known-background pixels inside the radius-10 window clipped to the buffer
\* (black and white when there is none), and 255 when both distances are 0.
\* The stored value is the exact value rounded down, or one less than an exact
\* value that is an integer which the double evaluation falls short of.
C20_AlphaOfUnknownPixel ==
  \A i \in Invocations :
    Ran(i, "applyAlphaMatting") =>
      \A n \in PixelsOf(i) :
        At(trimap[i], n) = 128 =>
          LET a == SqDistFg(i, n)
              b == SqDistBg(i, n)
              v == At(Unsmoothed(i), n)
          IN  IF a = 0 /\ b = 0 THEN v = 255
              ELSE IF <<a, b>> \in AlphaShort
              THEN IsExactFloor(v + 1, a, b) /\ IsExactInteger(v + 1, a, b)
              ELSE IsExactFloor(v, a, b)

\* A matte with an unknown pixel whose exact value is an integer that the
\* double evaluation falls short of, and an unknown pixel whose value lies
\* strictly between two integers.
C20_Witness ==
  \E i \in Invocations :
    /\ Ran(i, "applyAlphaMatting")
    /\ \E n \in PixelsOf(i) :
         At(trimap[i], n) = 128 /\ <<SqDistFg(i, n), SqDistBg(i, n)>> \in AlphaShort
    /\ \E n \in PixelsOf(i) :
         /\ At(trimap[i], n) = 128
         /\ At(Unsmoothed(i), n) \in 1..254
         /\ ~IsExactInteger(At(Unsmoothed(i), n), SqDistFg(i, n), SqDistBg(i, n))
         /\ <<SqDistFg(i, n), SqDistBg(i, n)>> \notin AlphaShort

\* C20 as stated: the alpha stored before smoothing is the exact value of
\* 255 * (1 - dFg / (dFg + dBg)), rounded down to the byte that is stored.
C20_AlphaIsExactValue ==
  \A i \in Invocations :
    Ran(i, "applyAlphaMatting") =>
      \A n \in PixelsOf(i) :
        At(trimap[i], n) = 128 =>
          LET a == SqDistFg(i, n)
              b == SqDistBg(i, n)
              v == At(Unsmoothed(i), n)
          IN  IF a = 0 /\ b = 0 THEN v = 255 ELSE IsExactFloor(v, a, b)

\* ------------------------------------------------------------------ C15
\* C15: for a buffer whose width or height is below 15, so that the border
\* band is 0 pixels wide and no border pixel is sampled, the Color Sampler
\* returns a default colour whose three channels are numbers in 0..255.
C15_DegenerateBufferGetsDefaultColour ==
  \A i \in Invocations :
    (Ran(i, "getDominantColor") /\ borderSizeOf(input[i].w, input[i].h) = 0) =>
      /\ ~bgColor[i].nan
      /\ bgColor[i].r \in 0..255 /\ bgColor[i].g \in 0..255 /\ bgColor[i].b \in 0..255

\* ------------------------------------------------------------------ C17
\* Pixel n of invocation i lies within BorderBand pixels of an edge of the
\* image.
NearAnEdge(i, n) ==
  LET x == n % input[i].w
      y == n \div input[i].w
  IN  \/ x < BorderBand \/ (input[i].w - 1) - x < BorderBand
      \/ y < BorderBand \/ (input[i].h - 1) - y < BorderBand

\* The mask after the first pass of createImprovedMask (lines 734-750).
FirstPassOf(i) == FirstPass(data[i], input[i].w, input[i].h, bgColor[i])

\* C17: after the first pass a pixel is labelled 1, meaning foreground,
\* exactly when its weighted colour distance to the background colour is at
\* or above the threshold, 50 * 1.8 within 30 pixels of an edge and 50
\* elsewhere; a pixel below the threshold is labelled 0, background.
C17_FirstPassMarksForeground ==
  \A i \in Invocations :
    (Ran(i, "getDominantColor") /\ ~bgColor[i].nan) =>
      \A n \in PixelsOf(i) :
        At(FirstPassOf(i), n) = 1
          <=> ~PixelBelow(data[i], n, bgColor[i], IF NearAnEdge(i, n) THEN 18 ELSE 10)

\* ------------------------------------------------------------------ C18
\* The mask and the visited array of invocation i after the flood fills.
Flooded(i) == floodFromBorders(data[i], input[i].w, input[i].h, bgColor[i])

\* The pixels floodFill was started from: the candidates of the two seeding
\* loops that the first pass had labelled 1.
SeedsOf(i) ==
  LET first == FirstPassOf(i)
  IN
  { n \in { sd[2] * input[i].w + sd[1] :
              sd \in { SeedCandidates(input[i].w, input[i].h)[j] :
                         j \in 1..Len(SeedCandidates(input[i].w, input[i].h)) } } :
      At(first, n) = 1 }

\* The acceptance test of line 776 for pixel n in the fill started at sd.
Accepts(i, n, sd) ==
  \/ PixelBelow(data[i], n,
                [nan |-> FALSE, r |-> Red(data[i], sd), g |-> Green(data[i], sd),
                 b |-> Blue(data[i], sd)], 15)
  \/ PixelBelow(data[i], n, bgColor[i], 13)

\* The horizontal and vertical neighbours of pixel n inside the buffer.
Neighbours(i, n) ==
  { m \in {n - 1, n + 1} : m \in PixelsOf(i) /\ m \div input[i].w = n \div input[i].w }
    \cup { m \in {n - input[i].w, n + input[i].w} : m \in PixelsOf(i) }

\* The pixels of the set accepted that 4-connected paths inside it join to S.
RECURSIVE Connected(_, _, _)
Connected(i, S, accepted) ==
  LET more == { n \in accepted \ S : Neighbours(i, n) \cap S # {} }
  IN  IF more = {} THEN S ELSE Connected(i, S \cup more, accepted)

\* The pixels joined to the seed sd by 4-connected paths of pixels that the
\* fill started at sd accepts.
Reach(i, sd) ==
  IF Accepts(i, sd, sd)
  THEN Connected(i, {sd}, { n \in PixelsOf(i) : Accepts(i, n, sd) })
  ELSE {}

\* C18: every pixel the flood fill labels is joined to a seed by a 4-connected
\* path of pixels that each pass the acceptance test of that seed's fill
\* (weighted distance to the seed's colour below threshold * 1.5, or to the
\* background colour below threshold * 1.3); every seed lies on the outermost
\* row or column and was labelled by the first pass; the flood fill changes no
\* label but those of the pixels it accepts, so a pixel failing the test is
\* never labelled by it.
C18_FloodFollowsAcceptedPaths ==
  \A i \in Invocations :
    Ran(i, "createImprovedMask") =>
      LET fl == Flooded(i)
          first == FirstPassOf(i)
          covered == UNION { Reach(i, sd) : sd \in SeedsOf(i) }
      IN  /\ \A sd \in SeedsOf(i) :
               \/ sd % input[i].w \in {0, input[i].w - 1}
               \/ sd \div input[i].w \in {0, input[i].h - 1}
          /\ \A n \in PixelsOf(i) :
               /\ At(fl.visited, n) = 1 => n \in covered /\ At(fl.mask, n) = 1
               /\ At(fl.mask, n) # At(first, n) => At(fl.visited, n) = 1

\* A flood fill that has labelled a pixel the first pass left 0, has stopped
\* at a pixel next to a labelled one, and has skipped a seed candidate the
\* first pass left 0.
C18_Witness ==
  \E i \in Invocations :
    /\ Ran(i, "createImprovedMask")
    /\ \E n \in PixelsOf(i) :
         At(Flooded(i).mask, n) = 1 /\ At(FirstPassOf(i), n) = 0
    /\ \E n \in PixelsOf(i) :
         /\ At(Flooded(i).visited, n) = 0
         /\ \E m \in Neighbours(i, n) : At(Flooded(i).visited, m) = 1
    /\ \E j \in 1..Len(SeedCandidates(input[i].w, input[i].h)) :
         LET sd == SeedCandidates(input[i].w, input[i].h)[j]
         IN  At(FirstPassOf(i), sd[2] * input[i].w + sd[1]) = 0

\* ------------------------------------------------------------------ C19
\* The pixels of the border band of invocation i.
BorderBandPixels(i) ==
  LET bs == borderSizeOf(input[i].w, input[i].h)
  IN  { n \in PixelsOf(i) :
          \/ n % input[i].w < bs \/ n % input[i].w >= input[i].w - bs
          \/ n \div input[i].w < bs \/ n \div input[i].w >= input[i].h - bs }

\* Number of border-band pixels in the 20-wide RGB bin of pixel n, each pixel
\* counted once.
BinCount(i, n) ==
  Cardinality({ m \in BorderBandPixels(i) :
                BucketKey(data[i], m) = BucketKey(data[i], n) })

\* C19: the Color Sampler returns the centre of the 20-wide RGB bin that holds
\* the largest number of pixels of the border band, each border-band pixel
\* counting once.
C19_DominantBinCountsPixelsOnce ==
  \A i \in Invocations :
    (Ran(i, "getDominantColor") /\ BorderBandPixels(i) # {}) =>
      \E n \in BorderBandPixels(i) :
        /\ \A m \in BorderBandPixels(i) : BinCount(i, m) <= BinCount(i, n)
        /\ bgColor[i].r = (Red(data[i], n) \div bucketSize) * bucketSize + bucketSize \div 2
        /\ bgColor[i].g = (Green(data[i], n) \div bucketSize) * bucketSize + bucketSize \div 2
        /\ bgColor[i].b = (Blue(data[i], n) \div bucketSize) * bucketSize + bucketSize \div 2

\* ------------------------------------------------------------------ C14
\* The distance map of the mask of invocation i.
DistanceMapOf(i) == createDistanceMap(mask[i], input[i].w, input[i].h)

\* C14: after applyMaskWithSmoothAlpha, of two foreground pixels of equal
\* input alpha whose distance-map values are below the feather radius, the one
\* with the larger distance has the larger or the same output alpha; a
\* foreground pixel whose distance is at or above the radius keeps its input
\* alpha; a pixel of mask value 0 has alpha 0.
C14_FeatherIsMonotone ==
  \A i \in Invocations :
    Ran(i, "applyMaskWithSmoothAlpha") =>
      LET dm == DistanceMapOf(i)
          radius == Steps(featherRadius, 0)
      IN  \A n \in PixelsOf(i) :
            /\ At(mask[i], n) = 0 => Alpha(data[i], n) = 0
            /\ (At(mask[i], n) # 0 /\ ~DistLess(At(dm, n), radius)) =>
                 Alpha(data[i], n) = Alpha(input[i].px, n)
            /\ (At(mask[i], n) # 0 /\ DistLess(At(dm, n), radius)) =>
                 \A m \in PixelsOf(i) :
                   ( /\ At(mask[i], m) # 0
                     /\ Alpha(input[i].px, m) = Alpha(input[i].px, n)
                     /\ DistLess(At(dm, n), At(dm, m))
                     /\ DistLess(At(dm, m), radius) )
                   => Alpha(data[i], n) <= Alpha(data[i], m)

\* A composited image with foreground pixels of the same input alpha at the
\* distances 0, 1 and sqrt(2) whose output alphas differ, a foreground pixel
\* at distance 2 or more and a background pixel.
C14_Witness ==
  \E i \in Invocations :
    /\ Ran(i, "applyMaskWithSmoothAlpha")
    /\ LET dm == DistanceMapOf(i)
           at(d) == { n \in PixelsOf(i) : At(dm, n) = d }
       IN  /\ \E n \in PixelsOf(i) : At(mask[i], n) = 0
           /\ \E n \in PixelsOf(i) :
                At(mask[i], n) # 0 /\ ~DistLess(At(dm, n), Steps(featherRadius, 0))
           /\ \E n \in at(Steps(0, 0)) :
                \E m \in at(Steps(1, 0)) :
                  /\ Alpha(input[i].px, n) = Alpha(input[i].px, m)
                  /\ Alpha(data[i], n) < Alpha(data[i], m)
                  /\ \E o \in at(Steps(0, 1)) :
                       /\ Alpha(input[i].px, n) = Alpha(input[i].px, o)
                       /\ Alpha(data[i], m) < Alpha(data[i], o)

\* ------------------------------------------------------------------ C16
\* C16: a file handed to the uploader, by the file dialog or by a drop, is
\* passed to onImageUpload exactly when its type is image/jpeg, image/jpg or
\* image/png and its size is at most 10 * 1024 * 1024 bytes; for any other
\* file onImageUpload is not called and the images of the application stay as
\* they are.  onImageUpload is called by nothing else, and the original image
\* is only ever set to a file that was passed to it.
C16_OnlyValidFilesAreUploaded ==
  [][ /\ app'.uploads # app.uploads => app'.selections # app.selections
      /\ (app'.originalImage # app.originalImage /\ app'.originalImage # NoFile)
           => app'.originalImage \in app.reading
      /\ app'.selections # app.selections =>
           IF /\ app'.selected.type \in {"image/jpeg", "image/jpg", "image/png"}
              /\ app'.selected.size <= 10 * 1024 * 1024
           THEN /\ app'.uploads = app.uploads + 1
                /\ app'.reading = app.reading \cup {app'.selected}
           ELSE /\ app'.uploads = app.uploads
                /\ app'.reading = app.reading
                /\ app'.originalImage = app.originalImage
                /\ app'.processedImage = app.processedImage
                /\ app'.finalImage = app.finalImage ]_vars

\* The uploader has passed on a file of exactly 10 MB and has then been
\* handed a file of a valid type that is one byte larger, which it has dropped.
C16_Witness ==
  /\ app.uploads = 1
  /\ app.selections = 2
  /\ app.selected.type \in validTypes
  /\ app.selected.size = maxSize + 1
  /\ \E file \in app.reading : file.size = maxSize

\* The pixels of the 3x3 window of pixel n that lie inside the buffer.
Window3(i, n) ==
  { k \in PixelsOf(i) :
      Chebyshev(k % input[i].w, k \div input[i].w,
                n % input[i].w, n \div input[i].w) <= 1 }

\* The pixels that are not on the outermost ring of the buffer.
Inner(i) ==
  { n \in PixelsOf(i) :
      /\ n % input[i].w >= 1 /\ n % input[i].w <= input[i].w - 2
      /\ n \div input[i].w >= 1 /\ n \div input[i].w <= input[i].h - 2 }

\* The pixels labelled 1 in a mask.
ForegroundOf(i, m) == { n \in PixelsOf(i) : At(m, n) = 1 }

\* The foreground pixels the erosion pass turns into background.
ErodedPixels(i) ==
  LET fg == ForegroundOf(i, refined[i])
  IN  { n \in fg \cap Inner(i) :
          /\ Window3(i, n) \ fg # {}
          /\ Cardinality(Window3(i, n) \cap fg) < 5 }

\* The background pixels the dilation pass turns into foreground, given the
\* foreground left by the erosion.
DilatedPixels(i, fg) ==
  { n \in Inner(i) \ fg : Cardinality(Window3(i, n) \cap fg) >= 5 }

\* C21: smoothMaskEdges makes one erosion pass and then one dilation pass.  A
\* foreground pixel off the outermost ring with a differing label in its 3x3
\* window and fewer than 5 foreground pixels among the 9 becomes background;
\* then, on the eroded mask, a background pixel off the outermost ring with at
\* least 5 foreground pixels among the 9 becomes foreground; every other
\* pixel, the outermost ring included, keeps its label.
C21_ErodeThenDilateOnce ==
  \A i \in Invocations :
    Ran(i, "smoothMaskEdges") =>
      LET left == ForegroundOf(i, refined[i]) \ ErodedPixels(i)
      IN  /\ Len(smoothed[i]) = Len(refined[i])
          /\ \A n \in PixelsOf(i) : At(smoothed[i], n) \in {0, 1}
          /\ ForegroundOf(i, smoothed[i]) = left \cup DilatedPixels(i, left)

\* A mask on which the erosion removes a pixel, the dilation adds one, and a
\* background pixel that had 5 foreground pixels in its window before the
\* erosion is left background.
C21_Witness ==
  \E i \in Invocations :
    /\ Ran(i, "smoothMaskEdges")
    /\ LET fg == ForegroundOf(i, refined[i])
           left == fg \ ErodedPixels(i)
       IN  /\ ErodedPixels(i) # {}
           /\ DilatedPixels(i, left) # {}
           /\ DilatedPixels(i, fg) \ DilatedPixels(i, left) # {}

\* The edge map as the claim has it: the pixels whose 3x3 neighbourhood holds
\* a label different from their own.
EdgeMapPixels(i) ==
  { n \in PixelsOf(i) : \E k \in Window3(i, n) : At(mask[i], k) # At(mask[i], n) }

\* The pixels at least 2 pixels from every edge of the buffer.
TwoFromEdges(i) ==
  { n \in PixelsOf(i) :
      /\ n % input[i].w >= 2 /\ n % input[i].w <= input[i].w - 3
      /\ n \div input[i].w >= 2 /\ n \div input[i].w <= input[i].h - 3 }

\* The foreground count of the 5x5 window of pixel n in the input mask.
ForegroundCount5(i, n) ==
  Cardinality({ k \in PixelsOf(i) :
                  /\ Chebyshev(k % input[i].w, k \div input[i].w,
                               n % input[i].w, n \div input[i].w) <= 2
                  /\ At(mask[i], k) = 1 })

\* The label the claim gives pixel n after the vote (foreground when
\* fg > 1.5 * bg, that is 2 * fg > 3 * bg, with bg = 25 - fg).
VotedLabel(i, n) ==
  LET fg == ForegroundCount5(i, n)
      bg == 25 - fg
  IN  IF n \notin EdgeMapPixels(i) \cap TwoFromEdges(i) THEN At(mask[i], n)
      ELSE IF 2 * fg > 3 * bg THEN 1
      ELSE IF 2 * bg > 3 * fg THEN 0
      ELSE At(mask[i], n)

\* C22: once the mask refiner has been entered, its working mask holds, for
\* every edge pixel (a pixel with a differing label in its 3x3 neighbourhood)
\* at least 2 pixels from every buffer edge, the label voted in the 5x5 window
\* of the input mask (foreground when the foreground count exceeds 1.5 times
\* the background count, background in the converse case, unchanged
\* otherwise), and for every other pixel its input label.
C22_EdgePixelsAreRevoted ==
  \A i \in Invocations :
    Ran(i, "refineAlgorithmMask") =>
      /\ Len(refined[i]) = input[i].w * input[i].h
      /\ \A n \in PixelsOf(i) : At(refined[i], n) = VotedLabel(i, n)

\* The weighted distance of pixel n to the background colour is below
\* threshold * f / 10.
DistanceBelow(i, n, f) == PixelBelow(data[i], n, bgColor[i], f)

\* The 4-connected neighbours of pixel n inside the buffer.
FourNeighbours(i, n) ==
  { k \in {n - 1, n + 1} : k \in PixelsOf(i) /\ k \div input[i].w = n \div input[i].w }
  \cup { k \in {n - input[i].w, n + input[i].w} : k \in PixelsOf(i) }

\* The label of neighbour k when the second pass examines pixel n: the pass
\* goes through the pixels in index order, so a neighbour before n has its
\* final label and a neighbour after n the label the flood fill left.
LabelSeenFrom(i, n, k) == IF k < n THEN At(mask[i], k) ELSE At(flood.mask, k)

BackgroundNeighbours(i, n) ==
  Cardinality({ k \in FourNeighbours(i, n) : LabelSeenFrom(i, n, k) = 1 })

\* C23: the second pass of createImprovedMask labels a pixel that the flood
\* fill left unmarked as background (1) exactly when at least 3 of its
\* 4-connected neighbours are labelled background and its distance to the
\* background colour is below threshold * 1.5, or its distance is below
\* threshold * 0.8 whatever its neighbours are; a pixel already labelled
\* background keeps its label.
C23_SecondPassRelabels ==
  \A i \in Invocations :
    (flood.on /\ Ran(i, "createImprovedMask")) =>
      \A n \in PixelsOf(i) :
        IF At(flood.mask, n) = 1 THEN At(mask[i], n) = 1
        ELSE At(mask[i], n) = 1 <=>
               \/ DistanceBelow(i, n, 15) /\ BackgroundNeighbours(i, n) >= 3
               \/ DistanceBelow(i, n, 8)

\* The second pass has relabelled a pixel that had three background
\* neighbours only because it had just relabelled one of them, and has left
\* alone a pixel below the relaxed threshold with fewer than three.
C23_Witness ==
  \E i \in Invocations :
    /\ flood.on /\ Ran(i, "createImprovedMask")
    /\ LET open == { n \in PixelsOf(i) : At(flood.mask, n) = 0 /\ DistanceBelow(i, n, 15) }
       IN  /\ \E n \in open :
                /\ At(mask[i], n) = 1
                /\ Cardinality({ k \in FourNeighbours(i, n) : At(flood.mask, k) = 1 }) < 3
           /\ \E n \in open : At(mask[i], n) = 0

\* The map before the first iteration: 0 on the edge pixels, Infinity
\* elsewhere.
SeedMap(i) ==
  AsTuple([j \in 1..Len(mask[i]) |->
    IF isEdge(mask[i], (j - 1) % input[i].w, (j - 1) \div input[i].w,
              input[i].w, input[i].h)
    THEN Steps(0, 0) ELSE Infinity])

\* The pixels an iteration recomputes: foreground pixels off the outermost
\* ring that are no seed.
Relaxed(i) ==
  LET seeds == SeedMap(i)
  IN  { n \in Inner(i) : At(mask[i], n) = 255 /\ At(seeds, n).inf }

\* The smallest of a set of distances.
Least(S) == CHOOSE d \in S : \A o \in S : ~DistLess(o, d)

\* The distance pixel n gets through its neighbour k when k holds d.
Through(i, n, k, d) ==
  DistPlus(d, (k % input[i].w) - (n % input[i].w), (k \div input[i].w) - (n \div input[i].w))

\* One Jacobi iteration: every pixel is recomputed from the map D of the
\* previous iteration only.
JacobiIteration(i, D) ==
  LET relaxed == Relaxed(i)
  IN  AsTuple([j \in 1..Len(D) |->
        IF j - 1 \in relaxed
        THEN Least({ Through(i, j - 1, k, At(D, k)) : k \in Window3(i, j - 1) })
        ELSE D[j]])

RECURSIVE JacobiIterations(_, _, _)
JacobiIterations(i, k, D) ==
  IF k = 0 THEN D
  ELSE LET next == JacobiIteration(i, D)
       \* (the test makes TLC compute next before it recurses)
       IN  IF next = D THEN D
           ELSE JacobiIterations(i, k - 1, next)

Running(i) == pc[i] \notin {"off", "pending", "returned"}

\* C25: every call of removeBackground settles, so that isProcessing, set when
\* handleRemoveBackground starts, returns to false: isProcessing is never true
\* in a state where no call of removeBackground has anything left to run.
C25_ProcessingAlwaysEnds == app.isProcessing => \E i \in Invocations : Running(i)

\* ------------------------------------------------------------------------ C26
\* C26: once no applyBackgroundColor call is pending, finalImage is the
\* composite of processedImage with the selected colour; a composite that
\* completes late does not overwrite the result of a later selection.
C26_LateCompositeNeverOverwrites ==
  (/\ app.pending = {}
   /\ app.processedImage # NoFile
   /\ Decodable(app.processedImage))
    => app.finalImage = applyBackgroundColor(app.processedImage, app.selectedColor)

\* ------------------------------------------------------------------------ C27
\* C27: after any sequence of remove-background, colour-change and crop
\* operations, processedImage is an image whose background is transparent, so
\* that the colour picked after a crop is the one finalImage shows.
C27_ProcessedImageStaysTransparent ==
  app.processedImage # NoFile => app.processedImage.background = "transparent"

\* ------------------------------------------------------------------------ C28
\* The compositors.
Compositors == {"applyAlphaMask", "applyMaskWithFeathering", "applyMaskWithSmoothAlpha"}

\* C28: after applyAlphaMask, applyMaskWithFeathering or applyMaskWithSmoothAlpha
\* has run, the alpha of every pixel is at most the alpha the pixel had in the
\* input, and a pixel whose input alpha is 0 has alpha 0.
C28_CompositingNeverRaisesAlpha ==
  \A i \in Invocations :
    (\E c \in Compositors : Ran(i, c)) =>
      \A n \in PixelsOf(i) :
        /\ Alpha(data[i], n) <= Alpha(input[i].px, n)
        /\ Alpha(input[i].px, n) = 0 => Alpha(data[i], n) = 0

\* applyMaskWithFeathering has run under a mask value strictly between 0 and
\* 255: a pixel's alpha was lowered to a value above 0, the pixel of input
\* alpha 0 is still at 0, and the pixel of input alpha 255 was lowered.
C28_Witness ==
  \E i \in Invocations :
    /\ Ran(i, "applyMaskWithFeathering")
    /\ \E n \in PixelsOf(i) :
         /\ At(mask[i], n) > 0 /\ At(mask[i], n) < 255
         /\ 0 < Alpha(data[i], n) /\ Alpha(data[i], n) < Alpha(input[i].px, n)
    /\ \E n \in PixelsOf(i) : Alpha(input[i].px, n) = 0 /\ Alpha(data[i], n) = 0
    /\ \E n \in PixelsOf(i) : Alpha(input[i].px, n) = 255 /\ Alpha(data[i], n) < 255

\* ------------------------------------------------------------------------ C29
\* The invocation that is inside createImprovedMask's flood fills.
Flooding == CHOOSE i \in Invocations : pc[i] \in {"seedLoop", "floodFill", "secondPass"}

\* C29: floodFill terminates for every image and seed.  Over all seeds of one
\* createImprovedMask call a pixel pushes its neighbours at most once, and
\* exactly when it has been marked visited and labelled 1; a call makes at most
\* one iteration for the seed and four for each pixel it may accept; and no
\* pixel array is indexed at coordinates outside 0 <= x < width,
\* 0 <= y < height.
C29_FloodFillIsBoundedAndInRange ==
  flood.on =>
    LET i == Flooding
        width == input[i].w
        height == input[i].h
    IN  /\ \A n \in PixelsOf(i) :
             /\ At(flood.accepts, n) <= 1
             /\ At(flood.accepts, n) = At(flood.visited, n)
             /\ At(flood.visited, n) = 1 => At(flood.mask, n) = 1
        /\ flood.iterations + Len(flood.stack) <= 4 * width * height + 1
        /\ \A c \in flood.indexed :
             c[1] >= 0 /\ c[1] < width /\ c[2] >= 0 /\ c[2] < height
        /\ (pc[i] = "secondPass" \/ pc[i] = "seedLoop") => flood.stack = <<>>

\* The seeding loops have ended after two or more floodFill calls, in which
\* entries were skipped at line 766, pixels were accepted and a pixel that was
\* reached was rejected, so that pixels are left unvisited.
C29_Witness ==
  /\ flood.on
  /\ pc[Flooding] = "secondPass"
  /\ flood.calls >= 2
  /\ flood.continues > 0
  /\ \E n \in PixelsOf(Flooding) : At(flood.visited, n) = 1
  /\ \E n \in PixelsOf(Flooding) : At(flood.visited, n) = 0
  /\ flood.indexed # {}

\* ------------------------------------------------------------------------ C30
\* The crop box lies inside the displayed image and has the minimum size.
BoxWithinBounds(box, containerSize) ==
  /\ box.x >= 0
  /\ box.y >= 0
  /\ box.width >= Pixels(MinCropSize)
  /\ box.height >= Pixels(MinCropSize)
  /\ box.x + box.width <= containerSize.width
  /\ box.y + box.height <= containerSize.height

\* C30: with a displayed image of at least 20 by 20 pixels, after a drag move
\* or a corner resize, under any preset, the crop box has x >= 0, y >= 0,
\* width >= 20, height >= 20, x + width <= displayed width and y + height <=
\* displayed height.
C30_CropBoxWithinBounds ==
  (crop.on /\ crop.last \in {"move", "resize"}) =>
    BoxWithinBounds(crop.box, crop.containerSize)

====
